---- MODULE Spec2Model ----
(***************************************************************************)
(* Model of the Altium -> KiCAD mapping engine                             *)
(* (migration_tool/core/mapping_engine.py) and of the database generator   *)
(* (migration_tool/core/kicad_generator.py).                               *)
(*                                                                         *)
(* Conventions                                                             *)
(*  - Python str values are TLA+ strings; the operators below work on     *)
(*    them character by character with Len / SubSeq / \o.                 *)
(*  - Python None is the reserved value None; no input string equals it.  *)
(*  - A Python dict whose iteration order matters (the rule tables) is a   *)
(*    sequence of <<key, value>> pairs with unique keys, in insertion      *)
(*    order.  A component record (dict of attributes) is a TLA+ function   *)
(*    from field names to values; a key may be absent.                     *)
(*  - A call that can raise returns a record with a field exc: "" when it  *)
(*    returned normally, else the name of the exception that left it.      *)
(*  - Confidence values are kept in tenths (5 is 0.5).                     *)
(***************************************************************************)
EXTENDS Integers, Sequences, FiniteSets, TLC

\* ------------------------------------------------------------------------
\* Strings
\* ------------------------------------------------------------------------

None == "<None>"

UpperToLower ==
  [c \in {"A","B","C","D","E","F","G","H","I","J","K","L","M","N","O","P","Q",
          "R","S","T","U","V","W","X","Y","Z"} |->
     CASE c = "A" -> "a" [] c = "B" -> "b" [] c = "C" -> "c" [] c = "D" -> "d"
       [] c = "E" -> "e" [] c = "F" -> "f" [] c = "G" -> "g" [] c = "H" -> "h"
       [] c = "I" -> "i" [] c = "J" -> "j" [] c = "K" -> "k" [] c = "L" -> "l"
       [] c = "M" -> "m" [] c = "N" -> "n" [] c = "O" -> "o" [] c = "P" -> "p"
       [] c = "Q" -> "q" [] c = "R" -> "r" [] c = "S" -> "s" [] c = "T" -> "t"
       [] c = "U" -> "u" [] c = "V" -> "v" [] c = "W" -> "w" [] c = "X" -> "x"
       [] c = "Y" -> "y" [] c = "Z" -> "z"]

CharAt(s, i) == SubSeq(s, i, i)

RECURSIVE LowerFrom(_, _)
LowerFrom(s, i) ==
  IF i > Len(s) THEN ""
  ELSE LET c == CharAt(s, i)
       IN (IF c \in DOMAIN UpperToLower THEN UpperToLower[c] ELSE c)
            \o LowerFrom(s, i + 1)

\* str.lower()
Lower(s) == LowerFrom(s, 1)

\* `t in s` for two str values
Contains(s, t) ==
  \E i \in 1..(Len(s) - Len(t) + 1) : SubSeq(s, i, i + Len(t) - 1) = t

\* any(term in s for term in terms)
AnyIn(terms, s) == \E j \in 1..Len(terms) : Contains(s, terms[j])

IsSpace(c) == c \in {" ", "\t", "\n", "\r"}

RECURSIVE LStrip(_)
LStrip(s) ==
  IF Len(s) > 0 /\ IsSpace(CharAt(s, 1)) THEN LStrip(SubSeq(s, 2, Len(s)))
  ELSE s

RECURSIVE RStrip(_)
RStrip(s) ==
  IF Len(s) > 0 /\ IsSpace(CharAt(s, Len(s)))
  THEN RStrip(SubSeq(s, 1, Len(s) - 1))
  ELSE s

\* str.strip()
Strip(s) == RStrip(LStrip(s))

\* str(v): None prints as the four letters None
Str(v) == IF v = None THEN "None" ELSE v

\* bool(v) for a str or None
Truthy(v) == v # None /\ v # ""

IsDigit(c) == c \in {"0","1","2","3","4","5","6","7","8","9"}

AllDigits(s, i, j) ==
  /\ i >= 1
  /\ j <= Len(s)
  /\ \A k \in i..j : IsDigit(CharAt(s, k))

\* fnmatch.fnmatchcase(name, pat) for patterns made of literals, * and ?
\* (POSIX normcase is the identity, so fnmatch.fnmatch is case sensitive)
RECURSIVE GlobFrom(_, _, _, _)
GlobFrom(name, i, pat, j) ==
  IF j > Len(pat) THEN i > Len(name)
  ELSE IF CharAt(pat, j) = "*"
       THEN \E k \in i..(Len(name) + 1) : GlobFrom(name, k, pat, j + 1)
  ELSE IF i > Len(name) THEN FALSE
  ELSE IF CharAt(pat, j) = "?" \/ CharAt(pat, j) = CharAt(name, i)
       THEN GlobFrom(name, i + 1, pat, j + 1)
  ELSE FALSE

FnMatch(name, pat) == GlobFrom(name, 1, pat, 1)

\* ------------------------------------------------------------------------
\* Ordered dicts and records
\* ------------------------------------------------------------------------

HasKey(d, k) == \E i \in 1..Len(d) : d[i][1] = k

Lookup(d, k) == d[CHOOSE i \in 1..Len(d) : d[i][1] = k][2]

\* d[k] = v
DictSet(d, k, v) ==
  IF HasKey(d, k)
  THEN [i \in 1..Len(d) |-> IF d[i][1] = k THEN <<k, v>> ELSE d[i]]
  ELSE Append(d, <<k, v>>)

\* Memoize with the raw reference stored in place of the resolved value
MemoizeRaw(mappings, raw, kicad_value) == DictSet(mappings, raw, raw)

\* self.symbol_mappings[raw] = kicad_value (resp. footprint_mappings): the
\* Memoize on a cache that holds the latest resolution only
MemoizeEvict(mappings, raw, kicad_value) == << <<raw, kicad_value>> >>

\* resolution of a raw reference is cached in the rule table
Memoize(mappings, raw, kicad_value) == DictSet(mappings, raw, kicad_value)

\* rec.get(k, default)
Get(rec, k, default) == IF k \in DOMAIN rec THEN rec[k] ELSE default

\* the empty dict / record
EmptyRec == [k \in {} |-> ""]

\* ------------------------------------------------------------------------
\* Results of calls that can raise
\* ------------------------------------------------------------------------

Ok(v) == [exc |-> "", val |-> v]

Raise(e) == [exc |-> e, val |-> None]

\* v.lower() raises AttributeError when v is None
CanLower(v) == v # None

\* ------------------------------------------------------------------------
\* Built-in rule data
\* ------------------------------------------------------------------------

\* _load_component_type_mappings: the default table, in dict order.  Every
\* symbol_patterns entry is a regex of the form .*word.*, for which
\* re.search(pattern, text) is `word in text`; the entry keeps the word.
component_type_mappings ==
  << [name |-> "resistors", kicad_symbol |-> "Device:R",
      symbol_patterns |-> <<"resistor", "res">>,
      common_footprints |->
        << <<"0201", "Resistor_SMD:R_0201_0603Metric">>,
           <<"0402", "Resistor_SMD:R_0402_1005Metric">>,
           <<"0603", "Resistor_SMD:R_0603_1608Metric">>,
           <<"0805", "Resistor_SMD:R_0805_2012Metric">>,
           <<"1206", "Resistor_SMD:R_1206_3216Metric">>,
           <<"1210", "Resistor_SMD:R_1210_3225Metric">>,
           <<"2010", "Resistor_SMD:R_2010_5025Metric">>,
           <<"2512", "Resistor_SMD:R_2512_6332Metric">> >>],
     [name |-> "capacitors", kicad_symbol |-> "Device:C",
      symbol_patterns |-> <<"capacitor", "cap">>,
      common_footprints |->
        << <<"0201", "Capacitor_SMD:C_0201_0603Metric">>,
           <<"0402", "Capacitor_SMD:C_0402_1005Metric">>,
           <<"0603", "Capacitor_SMD:C_0603_1608Metric">>,
           <<"0805", "Capacitor_SMD:C_0805_2012Metric">>,
           <<"1206", "Capacitor_SMD:C_1206_3216Metric">>,
           <<"1210", "Capacitor_SMD:C_1210_3225Metric">>,
           <<"1812", "Capacitor_SMD:C_1812_4532Metric">>,
           <<"2220", "Capacitor_SMD:C_2220_5650Metric">> >>],
     [name |-> "inductors", kicad_symbol |-> "Device:L",
      symbol_patterns |-> <<"inductor", "ind">>,
      common_footprints |->
        << <<"0603", "Inductor_SMD:L_0603_1608Metric">>,
           <<"0805", "Inductor_SMD:L_0805_2012Metric">>,
           <<"1206", "Inductor_SMD:L_1206_3216Metric">>,
           <<"1210", "Inductor_SMD:L_1210_3225Metric">>,
           <<"1812", "Inductor_SMD:L_1812_4532Metric">>,
           <<"2220", "Inductor_SMD:L_2220_5650Metric">> >>],
     [name |-> "diodes", kicad_symbol |-> "Device:D",
      symbol_patterns |-> <<"diode">>,
      common_footprints |->
        << <<"SOD-123", "Diode_SMD:D_SOD-123">>,
           <<"SOD-323", "Diode_SMD:D_SOD-323">>,
           <<"SOD-523", "Diode_SMD:D_SOD-523">>,
           <<"SMA", "Diode_SMD:D_SMA">>,
           <<"SMB", "Diode_SMD:D_SMB">>,
           <<"SMC", "Diode_SMD:D_SMC">> >>],
     [name |-> "transistors", kicad_symbol |-> "Device:Q_NPN_BCE",
      symbol_patterns |-> <<"transistor", "mosfet", "fet", "bjt">>,
      common_footprints |->
        << <<"SOT-23", "Package_TO_SOT_SMD:SOT-23">>,
           <<"SOT-23-3", "Package_TO_SOT_SMD:SOT-23">>,
           <<"SOT-23-5", "Package_TO_SOT_SMD:SOT-23-5">>,
           <<"SOT-23-6", "Package_TO_SOT_SMD:SOT-23-6">>,
           <<"SOT-223", "Package_TO_SOT_SMD:SOT-223">>,
           <<"TO-252", "Package_TO_SOT_SMD:TO-252-3_TabPin2">>,
           <<"DPAK", "Package_TO_SOT_SMD:TO-252-3_TabPin2">> >>],
     [name |-> "ics", kicad_symbol |-> "Device:U",
      symbol_patterns |->
        <<"ic", "integrated circuit", "microcontroller", "processor">>,
      common_footprints |->
        << <<"SOIC-8", "Package_SO:SOIC-8_3.9x4.9mm_P1.27mm">>,
           <<"SOIC-16", "Package_SO:SOIC-16_3.9x9.9mm_P1.27mm">>,
           <<"TSSOP-8", "Package_SO:TSSOP-8_4.4x3mm_P0.65mm">>,
           <<"TSSOP-16", "Package_SO:TSSOP-16_4.4x5mm_P0.65mm">>,
           <<"QFN-20", "Package_DFN_QFN:QFN-20-1EP_4x4mm_P0.5mm_EP2.5x2.5mm">>,
           <<"QFN-24", "Package_DFN_QFN:QFN-24-1EP_4x4mm_P0.5mm_EP2.6x2.6mm">>,
           <<"LQFP-32", "Package_QFP:LQFP-32_7x7mm_P0.8mm">>,
           <<"LQFP-48", "Package_QFP:LQFP-48_7x7mm_P0.5mm">>,
           <<"LQFP-64", "Package_QFP:LQFP-64_10x10mm_P0.5mm">>,
           <<"LQFP-100", "Package_QFP:LQFP-100_14x14mm_P0.5mm">> >>] >>

\* the generic values of the error fallback in map_component / map_table_data
GenericSymbol == "Device:U"

GenericFootprint == "Package_SO:SOIC-8_3.9x4.9mm_P1.27mm"

\* ------------------------------------------------------------------------
\* Symbol resolution
\* ------------------------------------------------------------------------

\* _find_similar_symbol: Ok(symbol), Ok(None) when nothing is similar
_find_similar_symbol(altium_symbol, component_data) ==
  LET d == Get(component_data, "Description", "")
  IN IF ~CanLower(d) THEN Raise("AttributeError")
     ELSE LET description == Lower(d)
          IN IF AnyIn(<<"resistor", "res">>, description) THEN Ok("Device:R")
             ELSE IF AnyIn(<<"capacitor", "cap">>, description)
                  THEN Ok("Device:C")
             ELSE IF AnyIn(<<"inductor", "ind">>, description)
                  THEN Ok("Device:L")
             ELSE IF AnyIn(<<"diode">>, description) THEN Ok("Device:D")
             ELSE IF AnyIn(<<"transistor", "fet", "mosfet">>, description)
                  THEN Ok("Device:Q_NMOS_GSD")
             ELSE IF AnyIn(<<"ic", "integrated", "chip">>, description)
                  THEN Ok("Device:U")
             ELSE Ok(None)

_get_fallback_symbol(component_data) ==
  LET d == Get(component_data, "Description", "")
      v == Get(component_data, "Value", "")
  IN IF ~CanLower(d) \/ ~CanLower(v) THEN Raise("AttributeError")
     ELSE LET text == Lower(d) \o " " \o Lower(v)
          IN IF AnyIn(<<"ohm", "k", "m", "resistor">>, text)
             THEN Ok("Device:R")
             ELSE IF AnyIn(<<"f", "farad", "capacitor">>, text)
                  THEN Ok("Device:C")
             ELSE IF AnyIn(<<"h", "henry", "inductor">>, text)
                  THEN Ok("Device:L")
             ELSE IF AnyIn(<<"diode", "rectifier">>, text) THEN Ok("Device:D")
             ELSE IF AnyIn(<<"transistor", "fet", "mosfet">>, text)
                  THEN Ok("Device:Q_NMOS_GSD")
             ELSE Ok("Device:U")

\* index of the first rule whose key is a glob pattern matching name, 0 if none
FirstPattern(mappings, name) ==
  LET hits == {i \in 1..Len(mappings) :
                 Contains(mappings[i][1], "*") /\ FnMatch(name, mappings[i][1])}
  IN IF hits = {} THEN 0 ELSE CHOOSE i \in hits : \A j \in hits : i <= j

\* <<t, p>> of the first component type pattern found in text1 or text2
\* (types in dict order, patterns in list order), <<0, 0>> if none
FirstTypeHit(text1, text2) ==
  LET hits == {t \in 1..Len(component_type_mappings) :
                 \E p \in 1..Len(component_type_mappings[t].symbol_patterns) :
                   \/ Contains(text1, component_type_mappings[t].symbol_patterns[p])
                   \/ Contains(text2, component_type_mappings[t].symbol_patterns[p])}
  IN IF hits = {} THEN 0 ELSE CHOOSE t \in hits : \A u \in hits : t <= u

\* result of map_symbol: the value or the exception, the rule table after the
\* call, and the strategy that produced the value
SymRes(e, v, m, h) == [exc |-> e, val |-> v, mappings |-> m, how |-> h]

\* lines 366-388: the component type keywords on description and value,
\* then the fuzzy similarity and the fallback
map_symbol_by_type(symbol_mappings, altium_symbol, component_data) ==
  LET d == Get(component_data, "Description", "")
      v == Get(component_data, "Value", "")
  IN IF ~CanLower(d) \/ ~CanLower(v)
     THEN SymRes("AttributeError", None, symbol_mappings, "none")
     ELSE LET t == FirstTypeHit(Lower(d), Lower(v))
          IN IF t # 0
             THEN LET kicad_symbol == component_type_mappings[t].kicad_symbol
                  IN SymRes("", kicad_symbol,
                            Memoize(symbol_mappings, altium_symbol,
                                    kicad_symbol),
                            "type")
             ELSE LET s == _find_similar_symbol(altium_symbol, component_data)
                  IN IF s.exc # ""
                     THEN SymRes(s.exc, None, symbol_mappings, "none")
                     ELSE IF Truthy(s.val)
                     THEN SymRes("", s.val, symbol_mappings, "fuzzy")
                     ELSE LET f == _get_fallback_symbol(component_data)
                          IN SymRes(f.exc, f.val, symbol_mappings, "fallback")

\* the call's body, before `except Exception` turns an error into
\* SymbolMappingError
map_symbol_body(symbol_mappings, altium_symbol, component_data) ==
  IF ~Truthy(altium_symbol)
  THEN LET f == _get_fallback_symbol(component_data)
       IN SymRes(f.exc, f.val, symbol_mappings, "empty")
  ELSE IF HasKey(symbol_mappings, altium_symbol)
  THEN SymRes("", Lookup(symbol_mappings, altium_symbol), symbol_mappings,
              "exact")
  ELSE LET p == FirstPattern(symbol_mappings, altium_symbol)
       IN IF p # 0
          THEN SymRes("", symbol_mappings[p][2],
                      Memoize(symbol_mappings, altium_symbol,
                              symbol_mappings[p][2]),
                      "pattern")
          ELSE map_symbol_by_type(symbol_mappings, altium_symbol,
                                  component_data)

\* `except Exception` of map_symbol (lines 390-392): whatever left the body,
\* SymbolMappingError leaves the call
map_symbol_except(r) ==
  IF r.exc # ""
  THEN SymRes("SymbolMappingError", None, r.mappings, "none")
  ELSE r

map_symbol(symbol_mappings, altium_symbol, component_data) ==
  map_symbol_except(map_symbol_body(symbol_mappings, altium_symbol,
                                    component_data))

\* ------------------------------------------------------------------------
\* Package size extraction (re.search over package_patterns)
\* ------------------------------------------------------------------------

\* smallest element of a non-empty set of positions
MinOf(S) == CHOOSE i \in S : \A j \in S : i <= j

\* last index of the maximal run of digits that starts at j (j - 1 if none)
DigitRunEnd(s, j) ==
  IF j > Len(s) \/ ~IsDigit(CharAt(s, j)) THEN j - 1
  ELSE CHOOSE k \in j..Len(s) :
         AllDigits(s, j, k) /\ (k = Len(s) \/ ~IsDigit(CharAt(s, k + 1)))

\* `$`: at the end of the string or just before a final newline
AtEnd(s, j) == j = Len(s) \/ (j = Len(s) - 1 /\ CharAt(s, Len(s)) = "\n")

\* r'(\d{3,4})$'
SearchDigitsEnd(s) ==
  LET m4(i) == AllDigits(s, i, i + 3) /\ AtEnd(s, i + 3)
      m3(i) == AllDigits(s, i, i + 2) /\ AtEnd(s, i + 2)
      hits  == {i \in 1..Len(s) : m4(i) \/ m3(i)}
  IN IF hits = {} THEN None
     ELSE LET i == MinOf(hits)
          IN IF m4(i) THEN SubSeq(s, i, i + 3) ELSE SubSeq(s, i, i + 2)

\* r'(\d{3,4})[^0-9]'
SearchDigitsThenOther(s) ==
  LET m4(i) == AllDigits(s, i, i + 3) /\ i + 4 <= Len(s)
                 /\ ~IsDigit(CharAt(s, i + 4))
      m3(i) == AllDigits(s, i, i + 2) /\ i + 3 <= Len(s)
                 /\ ~IsDigit(CharAt(s, i + 3))
      hits  == {i \in 1..Len(s) : m4(i) \/ m3(i)}
  IN IF hits = {} THEN None
     ELSE LET i == MinOf(hits)
          IN IF m4(i) THEN SubSeq(s, i, i + 3) ELSE SubSeq(s, i, i + 2)

\* r'_(\d{3,4})_'
SearchDigitsUnderscored(s) ==
  LET m4(i) == CharAt(s, i) = "_" /\ AllDigits(s, i + 1, i + 4)
                 /\ i + 5 <= Len(s) /\ CharAt(s, i + 5) = "_"
      m3(i) == CharAt(s, i) = "_" /\ AllDigits(s, i + 1, i + 3)
                 /\ i + 4 <= Len(s) /\ CharAt(s, i + 4) = "_"
      hits  == {i \in 1..Len(s) : m4(i) \/ m3(i)}
  IN IF hits = {} THEN None
     ELSE LET i == MinOf(hits)
          IN IF m4(i) THEN SubSeq(s, i + 1, i + 4) ELSE SubSeq(s, i + 1, i + 3)

\* re.IGNORECASE: the prefix is compared on the lower-cased text; ls is
\* Lower(s), lp is Lower(prefix).  Digits and "-" are their own lower case.

\* where the digits of r'PREFIX-?(\d+)' start when the prefix is found at i,
\* 0 if the pattern does not match at i
NumStart(ls, i, lp) ==
  LET n == Len(lp)
  IN IF i + n - 1 > Len(ls) \/ SubSeq(ls, i, i + n - 1) # lp THEN 0
     ELSE IF i + n + 1 <= Len(ls) /\ CharAt(ls, i + n) = "-"
             /\ IsDigit(CharAt(ls, i + n + 1))
     THEN i + n + 1
     ELSE IF i + n <= Len(ls) /\ IsDigit(CharAt(ls, i + n)) THEN i + n
     ELSE 0

\* r'PREFIX-?(\d+)' with re.IGNORECASE
SearchPrefixNum(s, prefix) ==
  LET ls   == Lower(s)
      lp   == Lower(prefix)
      hits == {i \in 1..Len(s) : NumStart(ls, i, lp) # 0}
  IN IF hits = {} THEN None
     ELSE LET j == NumStart(ls, MinOf(hits), lp)
          IN SubSeq(s, j, DigitRunEnd(s, j))

\* does \d+-\d start at j
DigitsDashDigit(ls, j) ==
  /\ j <= Len(ls)
  /\ IsDigit(CharAt(ls, j))
  /\ DigitRunEnd(ls, j) + 2 <= Len(ls)
  /\ CharAt(ls, DigitRunEnd(ls, j) + 1) = "-"
  /\ IsDigit(CharAt(ls, DigitRunEnd(ls, j) + 2))

\* where the group of r'PREFIX-?(\d+-\d+)' starts when the prefix is found at
\* i, 0 if the pattern does not match at i
NumDashStart(ls, i, lp) ==
  LET n == Len(lp)
  IN IF i + n - 1 > Len(ls) \/ SubSeq(ls, i, i + n - 1) # lp THEN 0
     ELSE IF i + n <= Len(ls) /\ CharAt(ls, i + n) = "-"
             /\ DigitsDashDigit(ls, i + n + 1)
     THEN i + n + 1
     ELSE IF DigitsDashDigit(ls, i + n) THEN i + n
     ELSE 0

\* the text \d+-\d+ that starts at j
DashGroup(s, j) == SubSeq(s, j, DigitRunEnd(s, DigitRunEnd(s, j) + 2))

\* r'PREFIX-?(\d+-\d+)' with re.IGNORECASE
SearchPrefixNumDash(s, prefix) ==
  LET ls   == Lower(s)
      lp   == Lower(prefix)
      hits == {i \in 1..Len(s) : NumDashStart(ls, i, lp) # 0}
  IN IF hits = {} THEN None
     ELSE DashGroup(s, NumDashStart(ls, MinOf(hits), lp))

\* the list package_patterns: the shape of each regex and its prefix
package_patterns ==
  << <<"(\\d{3,4})$", "">>,
     <<"(\\d{3,4})[^0-9]", "">>,
     <<"_(\\d{3,4})_", "">>,
     <<"P-?(\\d+)", "SOT">>,
     <<"P-?(\\d+-\\d+)", "SOT">>,
     <<"P-?(\\d+)", "SOIC">>,
     <<"P-?(\\d+)", "TSSOP">>,
     <<"P-?(\\d+)", "QFP">>,
     <<"P-?(\\d+)", "LQFP">>,
     <<"P-?(\\d+)", "QFN">>,
     <<"P-?(\\d+)", "DIP">> >>

\* group(1) of re.search(pattern, s, re.IGNORECASE), None if the pattern does
\* not match
Search(pattern, s) ==
  CASE pattern[1] = "(\\d{3,4})$"       -> SearchDigitsEnd(s)
    [] pattern[1] = "(\\d{3,4})[^0-9]"  -> SearchDigitsThenOther(s)
    [] pattern[1] = "_(\\d{3,4})_"      -> SearchDigitsUnderscored(s)
    [] pattern[1] = "P-?(\\d+)"         -> SearchPrefixNum(s, pattern[2])
    [] pattern[1] = "P-?(\\d+-\\d+)"    -> SearchPrefixNumDash(s, pattern[2])

\* `if match: return match.group(1)`, else what the code does next
FirstOf(group, next) == IF group # None THEN group ELSE next

\* `for pattern in package_patterns` from entry n on: the first pattern that
\* matches s gives the package, None if no pattern matches
RECURSIVE FirstPackageFrom(_, _)
FirstPackageFrom(s, n) ==
  IF n > Len(package_patterns) THEN None
  ELSE FirstOf(Search(package_patterns[n], s), FirstPackageFrom(s, n + 1))

\* one of the three loops of _extract_package_size, on one text; re.search
\* raises TypeError on None
FirstPackage(text) ==
  IF text = None THEN Raise("TypeError") ELSE Ok(FirstPackageFrom(text, 1))

\* a loop that returned a package or raised ends the call, else the code
\* goes on
ReturnOr(found, next) ==
  IF found.exc # "" \/ found.val # None THEN found ELSE next

\* the footprint name, then the Package field if it is truthy, then the
\* description
_extract_package_size(footprint, component_data) ==
  ReturnOr(FirstPackage(footprint),
    ReturnOr(IF Truthy(Get(component_data, "Package", ""))
             THEN FirstPackage(Get(component_data, "Package", ""))
             ELSE Ok(None),
             FirstPackage(Get(component_data, "Description", ""))))

\* ------------------------------------------------------------------------
\* Footprint resolution
\* ------------------------------------------------------------------------

\* Ok(footprint), Ok(None) when nothing is similar; altium_footprint is a str
_find_similar_footprint(altium_footprint, component_data) ==
  LET footprint_lower == Lower(altium_footprint)
  IN IF Contains(footprint_lower, "0603")
     THEN IF Contains(footprint_lower, "res")
          THEN Ok("Resistor_SMD:R_0603_1608Metric")
          ELSE IF Contains(footprint_lower, "cap")
          THEN Ok("Capacitor_SMD:C_0603_1608Metric")
          ELSE Ok("Resistor_SMD:R_0603_1608Metric")
     ELSE IF Contains(footprint_lower, "0805")
     THEN IF Contains(footprint_lower, "res")
          THEN Ok("Resistor_SMD:R_0805_2012Metric")
          ELSE IF Contains(footprint_lower, "cap")
          THEN Ok("Capacitor_SMD:C_0805_2012Metric")
          ELSE Ok("Resistor_SMD:R_0805_2012Metric")
     ELSE IF Contains(footprint_lower, "sot23")
             \/ Contains(footprint_lower, "sot-23")
     THEN Ok("Package_TO_SOT_SMD:SOT-23")
     ELSE IF Contains(footprint_lower, "soic")
     THEN IF Contains(footprint_lower, "8")
          THEN Ok("Package_SO:SOIC-8_3.9x4.9mm_P1.27mm")
          ELSE IF Contains(footprint_lower, "16")
          THEN Ok("Package_SO:SOIC-16_3.9x9.9mm_P1.27mm")
          ELSE Ok("Package_SO:SOIC-8_3.9x4.9mm_P1.27mm")
     ELSE Ok(None)

_get_fallback_footprint(component_data) ==
  LET d == Get(component_data, "Description", "")
  IN IF ~CanLower(d) THEN Raise("AttributeError")
     ELSE LET description == Lower(d)
          IN IF AnyIn(<<"resistor", "res", "ohm">>, description)
             THEN Ok("Resistor_SMD:R_0603_1608Metric")
             ELSE IF AnyIn(<<"capacitor", "cap">>, description)
             THEN Ok("Capacitor_SMD:C_0603_1608Metric")
             ELSE IF AnyIn(<<"inductor", "ind">>, description)
             THEN Ok("Inductor_SMD:L_0603_1608Metric")
             ELSE IF AnyIn(<<"diode">>, description)
             THEN Ok("Diode_SMD:D_SOD-123")
             ELSE IF AnyIn(<<"transistor", "fet", "mosfet">>, description)
             THEN Ok("Package_TO_SOT_SMD:SOT-23")
             ELSE Ok("Package_SO:SOIC-8_3.9x4.9mm_P1.27mm")

\* the first component type, in dict order, one of whose patterns is found in
\* description and whose common_footprints has the package; 0 if none
FirstTypeFootprint(description, package) ==
  LET hits == {t \in 1..Len(component_type_mappings) :
                 /\ AnyIn(component_type_mappings[t].symbol_patterns,
                          description)
                 /\ HasKey(component_type_mappings[t].common_footprints,
                           package)}
  IN IF hits = {} THEN 0 ELSE MinOf(hits)

\* result of map_footprint, shaped as the result of map_symbol
FpRes(e, v, m, h) == [exc |-> e, val |-> v, mappings |-> m, how |-> h]

\* lines 502-511: fuzzy similarity, then the fallback
map_footprint_tail(footprint_mappings, altium_footprint, component_data) ==
  LET s == _find_similar_footprint(altium_footprint, component_data)
  IN IF Truthy(s.val) THEN FpRes("", s.val, footprint_mappings, "fuzzy")
     ELSE LET f == _get_fallback_footprint(component_data)
          IN FpRes(f.exc, f.val, footprint_mappings, "fallback")

\* lines 486-511: the step on the extracted package, then the fuzzy
\* similarity and the fallback
map_footprint_by_package(footprint_mappings, altium_footprint, component_data, package) ==
  IF package.exc # ""
  THEN FpRes(package.exc, None, footprint_mappings, "none")
  ELSE IF ~Truthy(package.val)
  THEN map_footprint_tail(footprint_mappings, altium_footprint,
                          component_data)
  ELSE LET d == Get(component_data, "Description", "")
       IN IF ~CanLower(d)
          THEN FpRes("AttributeError", None, footprint_mappings, "none")
          ELSE LET t == FirstTypeFootprint(Lower(d), package.val)
               IN IF t # 0
                  THEN LET kicad_footprint ==
                             Lookup(component_type_mappings[t]
                                      .common_footprints, package.val)
                       IN FpRes("", kicad_footprint,
                                Memoize(footprint_mappings, altium_footprint,
                                        kicad_footprint),
                                "type")
                  ELSE map_footprint_tail(footprint_mappings,
                                          altium_footprint, component_data)

\* the call's body, before `except Exception` turns an error into
\* FootprintMappingError
map_footprint_body(footprint_mappings, altium_footprint, component_data) ==
  IF ~Truthy(altium_footprint)
  THEN LET f == _get_fallback_footprint(component_data)
       IN FpRes(f.exc, f.val, footprint_mappings, "empty")
  ELSE IF HasKey(footprint_mappings, altium_footprint)
  THEN FpRes("", Lookup(footprint_mappings, altium_footprint),
             footprint_mappings, "exact")
  ELSE LET p == FirstPattern(footprint_mappings, altium_footprint)
       IN IF p # 0
          THEN FpRes("", footprint_mappings[p][2],
                     Memoize(footprint_mappings, altium_footprint,
                             footprint_mappings[p][2]),
                     "pattern")
          ELSE map_footprint_by_package(
                 footprint_mappings, altium_footprint, component_data,
                 _extract_package_size(altium_footprint, component_data))

\* `except Exception` of map_footprint (lines 513-515)
map_footprint_except(r) ==
  IF r.exc # ""
  THEN FpRes("FootprintMappingError", None, r.mappings, "none")
  ELSE r

map_footprint(footprint_mappings, altium_footprint, component_data) ==
  map_footprint_except(map_footprint_body(footprint_mappings,
                                          altium_footprint, component_data))

\* ------------------------------------------------------------------------
\* Field mapping and classification
\* ------------------------------------------------------------------------

\* _default_field_mappings, in dict order (no config override)
field_mappings ==
  << <<"Part Number", "MPN">>,
     <<"Manufacturer", "Manufacturer">>,
     <<"Manufacturer Part Number", "MPN">>,
     <<"Description", "Description">>,
     <<"Value", "Value">>,
     <<"Footprint", "Footprint">>,
     <<"Datasheet", "Datasheet">>,
     <<"Supplier", "Supplier">>,
     <<"Supplier Part Number", "SPN">>,
     <<"Package", "Package">>,
     <<"Voltage", "Voltage">>,
     <<"Current", "Current">>,
     <<"Power", "Power">>,
     <<"Tolerance", "Tolerance">>,
     <<"Temperature", "Temperature">>,
     <<"Library Name", "Library">>,
     <<"Comment", "Comment">>,
     <<"ComponentLink1Description", "Link1_Desc">>,
     <<"ComponentLink1URL", "Link1_URL">>,
     <<"ComponentLink2Description", "Link2_Desc">>,
     <<"ComponentLink2URL", "Link2_URL">> >>

\* the loop of map_fields over field_mappings, from entry i on
RECURSIVE RenameFields(_, _, _)
RenameFields(altium_data, i, mapped_fields) ==
  IF i > Len(field_mappings) THEN mapped_fields
  ELSE LET altium_field == field_mappings[i][1]
           kicad_field  == field_mappings[i][2]
       IN IF /\ altium_field \in DOMAIN altium_data
             /\ altium_data[altium_field] # None
             /\ Strip(Str(altium_data[altium_field])) # ""
          THEN RenameFields(altium_data, i + 1,
                            DictSet(mapped_fields, kicad_field,
                                    Strip(Str(altium_data[altium_field]))))
          ELSE RenameFields(altium_data, i + 1, mapped_fields)

\* the reference designator chosen from the description text
ReferenceFor(altium_data) ==
  LET description == Lower(Str(Get(altium_data, "Description", "")))
  IN IF AnyIn(<<"resistor", "res">>, description) THEN "R"
     ELSE IF AnyIn(<<"capacitor", "cap">>, description) THEN "C"
     ELSE IF AnyIn(<<"inductor", "ind">>, description) THEN "L"
     ELSE IF AnyIn(<<"diode">>, description) THEN "D"
     ELSE IF AnyIn(<<"transistor", "fet", "mosfet">>, description) THEN "Q"
     ELSE "U"

\* map_fields: on records whose values are str or None nothing in its try
\* block raises, so the result is always the mapped dict
map_fields(altium_data) ==
  LET renamed   == RenameFields(altium_data, 1, <<>>)
      withValue == IF ~HasKey(renamed, "Value") /\ HasKey(renamed, "Description")
                   THEN DictSet(renamed, "Value", Lookup(renamed, "Description"))
                   ELSE renamed
  IN IF ~HasKey(withValue, "Reference")
     THEN DictSet(withValue, "Reference", ReferenceFor(altium_data))
     ELSE withValue

\* index of the first category rule whose pattern matches match_text, 0 if none
\* a str among the values a rule file was parsed to: the keys a dict yields
\* when it is iterated
PyStr(s) == [k \in {"<str>"} |-> s]

\* has the value the method get, as a dict has and a str has not
IsDict(rule) == "<str>" \notin DOMAIN rule

\* the first element of category_mappings on which rule.get raises
\* AttributeError, 0 when every element is a dict
FirstNotDict(category_mappings) ==
  LET bad == {i \in 1..Len(category_mappings) :
                ~IsDict(category_mappings[i])}
  IN IF bad = {} THEN 0 ELSE MinOf(bad)

\* FirstCategoryRule with the last matching rule in place of the first
LastCategoryRule(category_mappings, match_text) ==
  LET hits == {i \in 1..Len(category_mappings) :
                 /\ Truthy(Get(category_mappings[i], "pattern", ""))
                 /\ FnMatch(match_text,
                            Lower(Get(category_mappings[i], "pattern", "")))}
  IN IF hits = {} THEN 0 ELSE CHOOSE i \in hits : \A j \in hits : j <= i

FirstCategoryRule(category_mappings, match_text) ==
  LET hits == {i \in 1..Len(category_mappings) :
                 /\ Truthy(Get(category_mappings[i], "pattern", ""))
                 /\ FnMatch(match_text,
                            Lower(Get(category_mappings[i], "pattern", "")))}
  IN IF hits = {} THEN 0 ELSE MinOf(hits)

\* map_component_category: rules are dicts, so nothing in its try block raises
map_component_category(category_mappings, component_data) ==
  LET name        == Get(component_data, "Name", "")
      description == Get(component_data, "Description", "")
      symbol      == Get(component_data, "Symbol", "")
      footprint   == Get(component_data, "Footprint", "")
      match_text  == Lower(Str(name) \o " " \o Str(description) \o " "
                             \o Str(symbol) \o " " \o Str(footprint))
      r           == FirstCategoryRule(category_mappings, match_text)
      bad         == FirstNotDict(category_mappings)
      Cat(c, s, k) == [category |-> c, subcategory |-> s, keywords |-> k]
  IN IF bad # 0 /\ (r = 0 \/ bad < r)
     THEN Cat("Uncategorized", "General", <<"component">>)
     ELSE IF r # 0
     THEN Cat(Get(category_mappings[r], "category", "Uncategorized"),
              Get(category_mappings[r], "subcategory", "General"),
              Get(category_mappings[r], "keywords", <<>>))
     ELSE IF AnyIn(<<"resistor", "res", "ohm">>, match_text)
     THEN Cat("Passive Components", "Resistors",
              <<"resistor", "resistance", "ohm">>)
     ELSE IF AnyIn(<<"capacitor", "cap">>, match_text)
     THEN Cat("Passive Components", "Capacitors",
              <<"capacitor", "capacitance", "farad">>)
     ELSE IF AnyIn(<<"inductor", "ind">>, match_text)
     THEN Cat("Passive Components", "Inductors",
              <<"inductor", "inductance", "henry">>)
     ELSE IF AnyIn(<<"diode">>, match_text)
     THEN Cat("Semiconductor", "Diodes", <<"diode", "rectifier">>)
     ELSE IF AnyIn(<<"transistor", "fet", "mosfet">>, match_text)
     THEN Cat("Semiconductor", "Transistors",
              <<"transistor", "fet", "mosfet">>)
     ELSE IF AnyIn(<<"ic", "integrated", "chip">>, match_text)
     THEN Cat("Integrated Circuits", "General", <<"ic", "chip">>)
     ELSE Cat("Uncategorized", "General", <<"component">>)

\* ------------------------------------------------------------------------
\* Confidence
\* ------------------------------------------------------------------------

\* is there a glob rule that matches name and gives kicad_value
PatternGives(mappings, name, kicad_value) ==
  \E i \in 1..Len(mappings) :
    /\ Contains(mappings[i][1], "*")
    /\ FnMatch(name, mappings[i][1])
    /\ mappings[i][2] = kicad_value

\* fnmatch.fnmatch(None, pattern) raises TypeError; it is reached as soon as
\* the table holds a glob rule
PatternLoopRaises(mappings, name) ==
  name = None /\ \E i \in 1..Len(mappings) : Contains(mappings[i][1], "*")

\* the +0.1 / -0.1 consistency term for a generic symbol
Consistency(kicad_symbol, description) ==
  IF \/ kicad_symbol = "Device:R" /\ AnyIn(<<"resistor", "res">>, description)
     \/ kicad_symbol = "Device:C" /\ AnyIn(<<"capacitor", "cap">>, description)
     \/ kicad_symbol = "Device:L" /\ AnyIn(<<"inductor", "ind">>, description)
     \/ kicad_symbol = "Device:D" /\ AnyIn(<<"diode">>, description)
     \/ kicad_symbol = "Device:Q_NMOS_GSD"
          /\ AnyIn(<<"transistor", "fet", "mosfet">>, description)
  THEN 1 ELSE -1

Max(a, b) == IF a >= b THEN a ELSE b

Min(a, b) == IF a <= b THEN a ELSE b

\* Clamp with the bounds left out
ClampNone(confidence) == confidence

\* max(0.0, min(1.0, confidence)), in tenths
Clamp(confidence) == Max(0, Min(10, confidence))

_calculate_confidence(symbol_mappings, footprint_mappings, altium_symbol, altium_footprint, kicad_symbol, kicad_footprint, component_data) ==
  LET generic == kicad_symbol \in {"Device:R", "Device:C", "Device:L",
                                   "Device:D", "Device:Q_NMOS_GSD", "Device:U"}
      d       == Get(component_data, "Description", "")
  IN IF \/ PatternLoopRaises(symbol_mappings, altium_symbol)
        \/ PatternLoopRaises(footprint_mappings, altium_footprint)
     THEN Raise("TypeError")
     ELSE IF generic /\ ~CanLower(d) THEN Raise("AttributeError")
     ELSE Ok(Clamp(
            5
            + (IF /\ HasKey(symbol_mappings, altium_symbol)
                  /\ Lookup(symbol_mappings, altium_symbol) = kicad_symbol
               THEN 3 ELSE 0)
            + (IF /\ HasKey(footprint_mappings, altium_footprint)
                  /\ Lookup(footprint_mappings, altium_footprint)
                       = kicad_footprint
               THEN 3 ELSE 0)
            + (IF PatternGives(symbol_mappings, altium_symbol, kicad_symbol)
               THEN 2 ELSE 0)
            + (IF PatternGives(footprint_mappings, altium_footprint,
                               kicad_footprint)
               THEN 2 ELSE 0)
            + (IF generic THEN Consistency(kicad_symbol, Lower(d)) ELSE 0)))

\* ------------------------------------------------------------------------
\* map_component and map_table_data
\* ------------------------------------------------------------------------

\* the dataclass ComponentMapping
ComponentMapping(altium_symbol, altium_footprint, kicad_symbol, kicad_footprint, confidence, mapped_fields, category, subcategory, keywords) ==
  [altium_symbol    |-> altium_symbol,
   altium_footprint |-> altium_footprint,
   kicad_symbol     |-> kicad_symbol,
   kicad_footprint  |-> kicad_footprint,
   confidence       |-> confidence,
   field_mappings   |-> mapped_fields,
   category         |-> category,
   subcategory      |-> subcategory,
   keywords         |-> keywords]

\* the minimal mapping built for a failed component (lines 796-803, 897-904);
\* category, subcategory and keywords take the dataclass defaults
FallbackMapping(altium_data) ==
  ComponentMapping(Get(altium_data, "Symbol", ""),
                   Get(altium_data, "Footprint", ""),
                   GenericSymbol, GenericFootprint, 0,
                   map_fields(altium_data),
                   "Uncategorized", "General", <<>>)

\* result of map_component: exc is the exception that left the call ("" when
\* it returned), mapping the returned value, the two rule tables as the call
\* left them, failed the internal step whose exception was caught ("none"
\* when no step raised), and the strategies that resolved the two references
CompRes(e, m, sm, fm, step, sh, fh) ==
  [exc |-> e, mapping |-> m, symbol_mappings |-> sm,
   footprint_mappings |-> fm, failed |-> step,
   symbol_how |-> sh, footprint_how |-> fh]

\* lines 781-791: the mapping returned when no step raised, else the
\* exception of the step that raised, which leaves the try block (s, f,
\* confidence and c are the results of map_symbol, map_footprint,
\* _calculate_confidence and map_component_category)
map_component_return(footprint_mappings, altium_symbol, altium_footprint, s, f, mapped_fields, c, confidence) ==
  IF s.exc # ""
  THEN CompRes(s.exc, None, s.mappings, footprint_mappings, "map_symbol",
               "none", "none")
  ELSE IF f.exc # ""
  THEN CompRes(f.exc, None, s.mappings, f.mappings, "map_footprint",
               s.how, "none")
  ELSE IF confidence.exc # ""
  THEN CompRes(confidence.exc, None, s.mappings, f.mappings,
               "_calculate_confidence", s.how, f.how)
  ELSE CompRes("",
               ComponentMapping(altium_symbol, altium_footprint, s.val,
                                f.val, confidence.val, mapped_fields,
                                c.category, c.subcategory, c.keywords),
               s.mappings, f.mappings, "none", s.how, f.how)

\* lines 768-779: map_fields, map_component_category and
\* _calculate_confidence on the resolved symbol s and footprint f
map_component_resolved(footprint_mappings, category_mappings, altium_data, altium_symbol, altium_footprint, s, f) ==
  map_component_return(footprint_mappings, altium_symbol, altium_footprint,
                       s, f, map_fields(altium_data),
                       map_component_category(category_mappings, altium_data),
                       _calculate_confidence(s.mappings, f.mappings,
                                             altium_symbol, altium_footprint,
                                             s.val, f.val, altium_data))

\* lines 764-765: map_symbol and map_footprint on the two raw references
map_component_refs(symbol_mappings, footprint_mappings, category_mappings, altium_data, altium_symbol, altium_footprint) ==
  map_component_resolved(footprint_mappings, category_mappings, altium_data,
                         altium_symbol, altium_footprint,
                         map_symbol(symbol_mappings, altium_symbol,
                                    altium_data),
                         map_footprint(footprint_mappings, altium_footprint,
                                       altium_data))

\* the try block of map_component (lines 756-791): exc names the exception
\* that leaves it, failed the step that raised it
map_component_try(symbol_mappings, footprint_mappings, category_mappings, altium_data, table_config) ==
  map_component_refs(symbol_mappings, footprint_mappings, category_mappings,
                     altium_data,
                     Get(altium_data,
                         Get(table_config, "symbol_field", "Symbol"), ""),
                     Get(altium_data,
                         Get(table_config, "footprint_field", "Footprint"),
                         ""))

\* map_component_except catching MappingError only: any other exception
\* leaves map_component
map_component_except_narrow(r, altium_data) ==
  IF r.exc = ""
     \/ r.exc \notin {"SymbolMappingError", "FootprintMappingError"}
  THEN r
  ELSE CompRes("", FallbackMapping(altium_data), r.symbol_mappings,
               r.footprint_mappings, r.failed, r.symbol_how, r.footprint_how)

\* `except Exception` of map_component (lines 793-803): whatever left the try
\* block r, the minimal mapping is returned
map_component_except(r, altium_data) ==
  IF r.exc = "" THEN r
  ELSE CompRes("", FallbackMapping(altium_data), r.symbol_mappings,
               r.footprint_mappings, r.failed, r.symbol_how, r.footprint_how)

map_component(symbol_mappings, footprint_mappings, category_mappings, altium_data, table_config) ==
  map_component_except(
    map_component_try(symbol_mappings, footprint_mappings, category_mappings,
                      altium_data, table_config),
    altium_data)

\* result of map_table_data: the returned list, the rule tables as the call
\* left them, and per record the internal step that failed
TableRes(m, sm, fm, steps) ==
  [mappings |-> m, symbol_mappings |-> sm, footprint_mappings |-> fm,
   failed |-> steps]

\* map_table_append dropping the record whose mapping failed
map_table_append_skip(acc, r, altium_data) ==
  IF r.exc = "" /\ r.failed = "none"
  THEN TableRes(Append(acc.mappings, r.mapping), r.symbol_mappings,
                r.footprint_mappings, Append(acc.failed, r.failed))
  ELSE TableRes(acc.mappings, r.symbol_mappings, r.footprint_mappings,
                acc.failed)

\* lines 884-904: the result r of map_component for one record, or the
\* minimal mapping when the call raised, is appended to the list
map_table_append(acc, r, altium_data) ==
  TableRes(Append(acc.mappings,
                  IF r.exc = "" THEN r.mapping
                  ELSE FallbackMapping(altium_data)),
           r.symbol_mappings, r.footprint_mappings,
           Append(acc.failed, r.failed))

\* the loop of map_table_data from record i on
RECURSIVE map_table_loop(_, _, _, _, _)
map_table_loop(category_mappings, data, table_config, i, acc) ==
  IF i > Len(data) THEN acc
  ELSE map_table_loop(category_mappings, data, table_config, i + 1,
         map_table_append(acc,
           map_component(acc.symbol_mappings, acc.footprint_mappings,
                         category_mappings, data[i], table_config),
           data[i]))

map_table_data(symbol_mappings, footprint_mappings, category_mappings, table_data) ==
  map_table_loop(category_mappings, Get(table_data, "data", <<>>),
                 Get(table_data, "config", EmptyRec), 1,
                 TableRes(<<>>, symbol_mappings, footprint_mappings, <<>>))

\* ------------------------------------------------------------------------
\* Database generator (kicad_generator.py): pure parts
\* ------------------------------------------------------------------------

\* d.get(k, default) on an ordered dict
DictGet(d, k, default) == IF HasKey(d, k) THEN Lookup(d, k) ELSE default

\* the values of a sequence
Range(seq) == {seq[i] : i \in 1..Len(seq)}

\* the columns of CREATE TABLE components
components_table_columns ==
  {"id", "symbol", "footprint", "reference", "value", "description",
   "keywords", "manufacturer", "mpn", "datasheet", "supplier", "spn",
   "package", "voltage", "current", "power", "tolerance", "temperature",
   "category_id", "confidence", "original_altium_symbol",
   "original_altium_footprint", "exclude_from_board", "exclude_from_bom",
   "created_at", "updated_at"}

\* the names of default_categories, in list order
default_categories ==
  <<"Resistors", "Capacitors", "Inductors", "Diodes", "Transistors",
    "Integrated Circuits", "Connectors", "Mechanical",
    "Crystals & Oscillators", "Sensors", "Power Management",
    "Microcontrollers", "Memory", "Analog", "Digital", "RF",
    "Optoelectronics", "Test Points", "Uncategorized">>

\* str.replace(old, new) for one-character old and new, from position i on
RECURSIVE ReplaceFrom(_, _, _, _)
ReplaceFrom(s, old, new, i) ==
  IF i > Len(s) THEN ""
  ELSE (IF CharAt(s, i) = old THEN new ELSE CharAt(s, i))
         \o ReplaceFrom(s, old, new, i + 1)

\* field_name.replace(' ', '_').lower()
SanitizeFieldName(field_name) == Lower(ReplaceFrom(field_name, " ", "_", 1))

\* _add_additional_fields: the columns ALTER TABLE adds (a field without a
\* name is skipped, a column that exists already is left as it is)
AdditionalColumns(additional_fields) ==
  {SanitizeFieldName(additional_fields[i]) :
     i \in {j \in 1..Len(additional_fields) : Truthy(additional_fields[j])}}

\* categories_dict[name] = ...: a new name goes to the end of the dict
RECURSIVE MergeCategories(_, _, _)
MergeCategories(names, custom_categories, i) ==
  IF i > Len(custom_categories) THEN names
  ELSE MergeCategories(
         IF custom_categories[i] \in Range(names) THEN names
         ELSE Append(names, custom_categories[i]),
         custom_categories, i + 1)

\* result of the insert loops of populate_categories: the rows of the
\* categories table (row i has id i) and the dict category_ids
CatRes(rows, ids) == [rows |-> rows, ids |-> ids]

\* lines 317-327: INSERT INTO categories for each name from entry i on; an
\* insert that breaks UNIQUE or NOT NULL is logged and skipped
RECURSIVE insert_categories(_, _, _)
insert_categories(names, i, acc) ==
  IF i > Len(names) THEN acc
  ELSE insert_categories(names, i + 1,
         IF names[i] = None \/ names[i] \in Range(acc.rows) THEN acc
         ELSE CatRes(Append(acc.rows, names[i]),
                     DictSet(acc.ids, names[i], Len(acc.rows) + 1)))

\* lines 329-339: `if 'Uncategorized' not in category_ids`, one more insert
ensure_uncategorized(acc) ==
  IF HasKey(acc.ids, "Uncategorized") \/ "Uncategorized" \in Range(acc.rows)
  THEN acc
  ELSE CatRes(Append(acc.rows, "Uncategorized"),
              DictSet(acc.ids, "Uncategorized", Len(acc.rows) + 1))

\* populate_categories on a database with the categories table (every insert
\* fails without it): the rows after the call and the dict returned
populate_categories(tables_exist, rows, custom_categories) ==
  IF ~tables_exist THEN CatRes(rows, <<>>)
  ELSE ensure_uncategorized(
         insert_categories(MergeCategories(default_categories,
                                           custom_categories, 1),
                           1, CatRes(rows, <<>>)))

\* the if / elif chain of _categorize_component on the lower-cased
\* description and symbol: the category name looked up
CategoryNameFor(description, symbol) ==
  IF AnyIn(<<"resistor", "resistance">>, description) \/ Contains(symbol, ":r")
  THEN "Resistors"
  ELSE IF AnyIn(<<"capacitor", "capacitance">>, description)
          \/ Contains(symbol, ":c")
  THEN "Capacitors"
  ELSE IF AnyIn(<<"inductor", "inductance">>, description)
          \/ Contains(symbol, ":l")
  THEN "Inductors"
  ELSE IF AnyIn(<<"diode">>, description) \/ Contains(symbol, ":d")
  THEN "Diodes"
  ELSE IF AnyIn(<<"transistor", "mosfet", "fet">>, description)
          \/ Contains(symbol, ":q")
  THEN "Transistors"
  ELSE IF AnyIn(<<"microcontroller", "mcu", "processor">>, description)
  THEN "Microcontrollers"
  ELSE IF AnyIn(<<"connector", "jack", "plug", "socket">>, description)
  THEN "Connectors"
  ELSE IF AnyIn(<<"crystal", "oscillator", "resonator">>, description)
  THEN "Crystals & Oscillators"
  ELSE "Uncategorized"

\* _categorize_component: .lower() on None raises AttributeError; the default
\* argument category_ids['Uncategorized'] is evaluated in every branch and
\* raises KeyError when the key is missing
_categorize_component(mapping, category_ids) ==
  IF \/ ~CanLower(DictGet(mapping.field_mappings, "Description", ""))
     \/ ~CanLower(mapping.kicad_symbol)
  THEN Raise("AttributeError")
  ELSE IF ~HasKey(category_ids, "Uncategorized") THEN Raise("KeyError")
  ELSE Ok(DictGet(category_ids,
                  CategoryNameFor(
                    Lower(DictGet(mapping.field_mappings, "Description", "")),
                    Lower(mapping.kicad_symbol)),
                  Lookup(category_ids, "Uncategorized")))

\* description.replace(',', ' ').split() cuts at commas and white space
IsSeparator(c) == IsSpace(c) \/ c = ","

\* the words of s from position i on; start is where the word that contains
\* position i - 1 began (0 outside a word), words the set collected so far.
\* A word is kept when it has more than two characters, lower-cased.
RECURSIVE KeywordsFrom(_, _, _, _)
KeywordsFrom(s, i, start, words) ==
  IF i > Len(s)
  THEN IF start # 0 /\ i - start > 2
       THEN words \cup {Lower(SubSeq(s, start, i - 1))} ELSE words
  ELSE IF IsSeparator(CharAt(s, i))
  THEN KeywordsFrom(s, i + 1, 0,
                    IF start # 0 /\ i - start > 2
                    THEN words \cup {Lower(SubSeq(s, start, i - 1))}
                    ELSE words)
  ELSE KeywordsFrom(s, i + 1, IF start = 0 THEN i ELSE start, words)

\* _generate_keywords: ' '.join(list(set(keywords))) leaves the order of the
\* words open; the value kept is the set of words joined
_generate_keywords(mapping) ==
  (IF Truthy(DictGet(mapping.field_mappings, "Description", ""))
   THEN KeywordsFrom(DictGet(mapping.field_mappings, "Description", ""),
                     1, 0, {})
   ELSE {})
  \cup (IF Truthy(DictGet(mapping.field_mappings, "Manufacturer", ""))
        THEN {Lower(DictGet(mapping.field_mappings, "Manufacturer", ""))}
        ELSE {})
  \cup (IF Truthy(DictGet(mapping.field_mappings, "Package", ""))
        THEN {Lower(DictGet(mapping.field_mappings, "Package", ""))}
        ELSE {})

\* `if hasattr(mapping, name) and value: component_data[name] = value`
CustomField(name, value) == IF Truthy(value) THEN name :> value ELSE EmptyRec

\* the dict component_data of populate_components (lines 410-442): the
\* columns named in the INSERT and their values
ComponentData(mapping, category_id) ==
  [symbol       |-> mapping.kicad_symbol,
   footprint    |-> mapping.kicad_footprint,
   reference    |-> DictGet(mapping.field_mappings, "Reference", "U"),
   value        |-> DictGet(mapping.field_mappings, "Value", ""),
   description  |-> DictGet(mapping.field_mappings, "Description", ""),
   keywords     |-> _generate_keywords(mapping),
   manufacturer |-> DictGet(mapping.field_mappings, "Manufacturer", ""),
   mpn          |-> DictGet(mapping.field_mappings, "MPN", ""),
   datasheet    |-> DictGet(mapping.field_mappings, "Datasheet", ""),
   supplier     |-> DictGet(mapping.field_mappings, "Supplier", ""),
   spn          |-> DictGet(mapping.field_mappings, "SPN", ""),
   package      |-> DictGet(mapping.field_mappings, "Package", ""),
   voltage      |-> DictGet(mapping.field_mappings, "Voltage", ""),
   current      |-> DictGet(mapping.field_mappings, "Current", ""),
   power        |-> DictGet(mapping.field_mappings, "Power", ""),
   tolerance    |-> DictGet(mapping.field_mappings, "Tolerance", ""),
   temperature  |-> DictGet(mapping.field_mappings, "Temperature", ""),
   category_id  |-> category_id,
   confidence   |-> mapping.confidence,
   original_altium_symbol    |-> mapping.altium_symbol,
   original_altium_footprint |-> mapping.altium_footprint]
  @@ CustomField("category", mapping.category)
  @@ CustomField("subcategory", mapping.subcategory)

\* does INSERT INTO components (columns of row) succeed: the table exists,
\* it has every column named, and no NOT NULL column gets NULL
InsertSucceeds(table_columns, row) ==
  /\ table_columns # {}
  /\ DOMAIN row \subseteq table_columns
  /\ row.symbol # None
  /\ row.footprint # None
  /\ row.reference # None

\* the state of the loop of populate_components: the rows of the components
\* table and the two counters
PopRes(rows, total, failed) ==
  [rows |-> rows, total_components |-> total, failed_components |-> failed]

\* lines 444-455: cursor.execute(INSERT ...) and the count of the success;
\* an exception goes to lines 460-462, which count the failure
insert_component(table_columns, acc, row) ==
  IF InsertSucceeds(table_columns, row)
  THEN PopRes(Append(acc.rows, row), acc.total_components + 1,
              acc.failed_components)
  ELSE PopRes(acc.rows, acc.total_components, acc.failed_components + 1)

\* a loop body that gives up the batch at the first failure: once a row has
\* failed, the mappings after it are not attempted
populate_one_abort(table_columns, acc, mapping, category_id) ==
  IF acc.failed_components > 0 THEN acc
  ELSE IF category_id.exc # ""
  THEN PopRes(acc.rows, acc.total_components, acc.failed_components + 1)
  ELSE insert_component(table_columns, acc,
                        ComponentData(mapping, category_id.val))

\* the body of the loop for one mapping (lines 405-462), category_id being
\* the result of _categorize_component
populate_one(table_columns, acc, mapping, category_id) ==
  IF category_id.exc # ""
  THEN PopRes(acc.rows, acc.total_components, acc.failed_components + 1)
  ELSE insert_component(table_columns, acc,
                        ComponentData(mapping, category_id.val))

\* `for mapping in mappings` from entry i on
RECURSIVE populate_loop(_, _, _, _, _)
populate_loop(table_columns, category_ids, mappings, i, acc) ==
  IF i > Len(mappings) THEN acc
  ELSE populate_loop(table_columns, category_ids, mappings, i + 1,
         populate_one(table_columns, acc, mappings[i],
                      _categorize_component(mappings[i], category_ids)))

\* populate_components for one table of mappings on a database whose
\* components table has table_columns ({} without the table) and rows
populate_components(table_columns, rows, mappings, category_ids) ==
  populate_loop(table_columns, category_ids, mappings, 1, PopRes(rows, 0, 0))

\* create_database_schema on a database that has the views or not: CREATE
\* VIEW fails on a view that exists, and DatabaseError leaves the call before
\* the additional fields are added
create_database_schema(had_views, additional_component_fields) ==
  IF had_views
  THEN [exc |-> "DatabaseError",
        components_columns |-> components_table_columns]
  ELSE [exc |-> "",
        components_columns |->
          components_table_columns
            \cup AdditionalColumns(additional_component_fields)]

\* ConfidenceLevel with 0.8 counted as high
ConfidenceLevelInclusive(confidence) ==
  IF confidence >= 8 THEN "high_confidence"
  ELSE IF confidence >= 5 THEN "medium_confidence"
  ELSE "low_confidence"

\* lines 797-805: the confidence bucket of a mapping (confidence in tenths)
ConfidenceLevel(confidence) ==
  IF confidence > 8 THEN "high_confidence"
  ELSE IF confidence >= 5 THEN "medium_confidence"
  ELSE "low_confidence"

\* `if x not in list: list.append(x)`
AppendIfNew(list, x) == IF x \in Range(list) THEN list ELSE Append(list, x)

\* lines 783-790: table_stats before the mappings are counted
NewTableStats(mappings) ==
  [component_count |-> Len(mappings), high_confidence |-> 0,
   medium_confidence |-> 0, low_confidence |-> 0,
   missing_symbols |-> <<>>, missing_footprints |-> <<>>]

\* lines 797-814 for one mapping: its bucket, and its raw references when
\* the canonical value is empty or the generic one
count_mapping(table_stats, mapping) ==
  [table_stats EXCEPT
     ![ConfidenceLevel(mapping.confidence)] = @ + 1,
     !.missing_symbols =
        IF ~Truthy(mapping.kicad_symbol) \/ mapping.kicad_symbol = "Device:U"
        THEN AppendIfNew(@, mapping.altium_symbol) ELSE @,
     !.missing_footprints =
        IF \/ ~Truthy(mapping.kicad_footprint)
           \/ mapping.kicad_footprint = "Package_SO:SOIC-8_3.9x4.9mm_P1.27mm"
        THEN AppendIfNew(@, mapping.altium_footprint) ELSE @]

\* `for mapping in mappings` (line 793) from entry i on
RECURSIVE table_stats_loop(_, _, _)
table_stats_loop(mappings, i, table_stats) ==
  IF i > Len(mappings) THEN table_stats
  ELSE table_stats_loop(mappings, i + 1,
                        count_mapping(table_stats, mappings[i]))

\* lines 765-776: the report before the tables are processed
NewReport(component_mappings) ==
  [migration_summary |->
     [total_tables |-> Len(component_mappings), total_components |-> 0,
      high_confidence |-> 0, medium_confidence |-> 0, low_confidence |-> 0],
   table_details |-> <<>>, issues |-> <<>>, recommendations |-> <<>>]

\* lines 794-805 and 816: the summary counters after one table, and the
\* table's entry in table_details
add_table(report, table_name, table_stats) ==
  [report EXCEPT
     !.migration_summary =
        [@ EXCEPT
           !.total_components = @ + table_stats.component_count,
           !.high_confidence = @ + table_stats.high_confidence,
           !.medium_confidence = @ + table_stats.medium_confidence,
           !.low_confidence = @ + table_stats.low_confidence],
     !.table_details = DictSet(@, table_name, table_stats)]

\* `for table_name, mappings in component_mappings.items()` from entry t on
RECURSIVE report_loop(_, _, _)
report_loop(component_mappings, t, report) ==
  IF t > Len(component_mappings) THEN report
  ELSE report_loop(component_mappings, t + 1,
         add_table(report, component_mappings[t][1],
                   table_stats_loop(component_mappings[t][2], 1,
                                    NewTableStats(component_mappings[t][2]))))

\* sum(len(table[key]) for table in report["table_details"].values())
RECURSIVE MissingCount(_, _, _)
MissingCount(table_details, key, t) ==
  IF t > Len(table_details) THEN 0
  ELSE Len(table_details[t][2][key]) + MissingCount(table_details, key, t + 1)

\* one entry of issues (lines 855-874)
IssueIf(type, count) ==
  IF count > 0 THEN << [type |-> type, count |-> count] >> ELSE <<>>

\* one recommendation (lines 832-850): its text around the count
RecommendIf(text, count) ==
  IF count > 0 THEN << <<text, count>> >> ELSE <<>>

\* lines 829-874: recommendations and issues from the three counts
add_issues(report, missing_symbols_count, missing_footprints_count) ==
  [report EXCEPT
     !.recommendations =
        RecommendIf("Review low-confidence mappings manually",
                    report.migration_summary.low_confidence)
          \o RecommendIf("Create custom symbol mappings for missing symbols",
                         missing_symbols_count)
          \o RecommendIf(
               "Create custom footprint mappings for missing footprints",
               missing_footprints_count),
     !.issues =
        IssueIf("low_confidence", report.migration_summary.low_confidence)
          \o IssueIf("missing_symbols", missing_symbols_count)
          \o IssueIf("missing_footprints", missing_footprints_count)]

\* the report dict of generate_migration_report (lines 765-874)
migration_report_of(report) ==
  add_issues(report,
             MissingCount(report.table_details, "missing_symbols", 1),
             MissingCount(report.table_details, "missing_footprints", 1))

\* generate_migration_report: the report is written to migration_report.json
\* (lines 877-879); an exception, as of open() on a path that cannot be
\* written, is raised again as ConfigurationError (lines 896-898)
generate_migration_report(component_mappings, report_writable) ==
  IF report_writable
  THEN Ok(migration_report_of(
            report_loop(component_mappings, 1, NewReport(component_mappings))))
  ELSE Raise("ConfigurationError")

\* generate_kicad_dblib_file: the library file is written (lines 618-619) or
\* the exception is raised again as ConfigurationError (lines 623-625)
generate_kicad_dblib_file(dblib_writable) ==
  IF dblib_writable THEN Ok("components.kicad_dbl")
  ELSE Raise("ConfigurationError")

\* the dict generate returns (lines 941-946)
GenerateResult ==
  [database_path |-> "components.db", dblib_path |-> "components.kicad_dbl",
   output_directory |-> ".", report_path |-> "migration_report.json"]

\* a rule file: absent (not configured or not on disk), not parsable, or
\* parsed to a dict or to a list with the items given
NoFile == [kind |-> "absent", items |-> <<>>]

Unparsable == [kind |-> "unparsable", items |-> <<>>]

DictFile(items) == [kind |-> "dict", items |-> items]

ListFile(items) == [kind |-> "list", items |-> items]

\* the rule files an engine with the rule tables c is built from
FilesOf(c) ==
  [symbol_mapping_file |-> IF c[1] = <<>> THEN NoFile ELSE DictFile(c[1]),
   footprint_mapping_file |-> IF c[2] = <<>> THEN NoFile ELSE DictFile(c[2]),
   category_mapping_file |-> IF c[3] = <<>> THEN NoFile ELSE ListFile(c[3])]

\* dict.update(custom) from item i of custom on
RECURSIVE Update(_, _, _)
Update(d, custom, i) ==
  IF i > Len(custom) THEN d
  ELSE Update(DictSet(d, custom[i][1], custom[i][2]), custom, i + 1)

\* lines 127-141 and 144-158: the table is updated from a file that parses
\* to a dict; a parse error is logged, another shape is passed over
load_mapping_file(mappings, file) ==
  IF file.kind = "dict" THEN Update(mappings, file.items, 1) ELSE mappings

\* lines 161-174: self.category_mappings is bound to whatever the file
\* parses to, before the isinstance test, which only guards the log line;
\* a dict is held as the sequence of keys its iteration yields
load_category_file(category_mappings, file) ==
  IF file.kind = "list" THEN file.items
  ELSE IF file.kind = "dict"
  THEN [i \in 1..Len(file.items) |-> PyStr(file.items[i][1])]
  ELSE category_mappings

\* ------------------------------------------------------------------------
\* Inputs
\* ------------------------------------------------------------------------

\* longest table handed to map_table_data
MaxRecords == 2

\* rule files loaded by _load_custom_mappings: none, an exact rule, a glob
\* rule, an exact rule with an empty target
SymbolRuleSets ==
  { <<>>,
    << <<"RES", "Custom:R">> >>,
    << <<"RE*", "Custom:R">> >>,
    << <<"RES", "">> >> }

FootprintRuleSets ==
  { <<>>,
    << <<"0603", "Custom:0603">> >>,
    << <<"06*", "Custom:0603">> >> }

CategoryRuleSets ==
  { <<>>,
    << [pattern |-> "*resistor*", category |-> "Passive",
        subcategory |-> "Resistors"] >> }

\* the configurations an engine is built with: which symbol, footprint and
\* category rule files are present
EngineConfigs ==
  { <<sm, fm, cm>> \in
      SymbolRuleSets \X FootprintRuleSets \X CategoryRuleSets :
        \/ fm = <<>> /\ cm = <<>>
        \/ sm = << <<"RES", "Custom:R">> >>
             /\ fm = << <<"0603", "Custom:0603">> >> /\ cm # <<>>
        \/ sm = << <<"RE*", "Custom:R">> >>
             /\ fm = << <<"06*", "Custom:0603">> >> /\ cm = <<>> }

\* Scenario A of the specification
RecA == [Symbol |-> "RES", Footprint |-> "0603",
         Description |-> "10k Ohm Resistor"]

\* the same raw symbol on another kind of part, no footprint
RecB == [Symbol |-> "RES", Description |-> "100nF capacitor"]

\* a null description
RecN == [Symbol |-> "RES", Footprint |-> "0603", Description |-> None]

\* a null symbol
RecQ == [Symbol |-> None, Footprint |-> "abc", Description |-> "diode"]

\* references under the field names of a custom table configuration
RecS == [Sym |-> "XYZ", FP |-> "SOIC-8", Description |-> "IC chip",
         Value |-> " 5V "]

\* a part described by its value only
RecV == [Symbol |-> "RES", Footprint |-> "0603", Value |-> "10k resistor"]

Records == {RecA, RecB, RecN, RecQ, RecS, EmptyRec}

TableRecords == {RecA, RecN}

TableConfigs ==
  {EmptyRec, [symbol_field |-> "Sym", footprint_field |-> "FP"]}

\* the tables of at most MaxRecords records
Tables ==
  UNION {[1..n -> TableRecords] : n \in 0..MaxRecords}

\* ------------------------------------------------------------------------
\* State
\* ------------------------------------------------------------------------

VARIABLES
  symbol_mappings,         \* self.symbol_mappings
  footprint_mappings,      \* self.footprint_mappings
  category_mappings,       \* self.category_mappings
  init_symbol_mappings,    \* symbol_mappings as __init__ left it
  init_footprint_mappings, \* footprint_mappings as __init__ left it
  rule_files,              \* the rule files self.config names
  last,                    \* the most recent call on the engine and its result
  config,                  \* self.config of the generator
  components_columns,      \* columns of the components table, {} without it
  views,                   \* do the component views exist in the database
  categories,              \* names in the categories table, row i has id i
  components,              \* rows of the components table
  category_ids,            \* the dict populate_categories returned last
  gen_last,                \* the most recent call on the generator
  files,                   \* the library and report files in output_dir
  workers,                 \* per worker thread, the call it is in
  writes,                  \* the cache stores made by the workers, in order
  gui,                     \* the application window and its migration thread
  progress_dialog,         \* the MigrationProgressDialog of the run
  tx                       \* the populate_components call in progress

engineVars == <<symbol_mappings, footprint_mappings, category_mappings,
                init_symbol_mappings, init_footprint_mappings, rule_files,
                last>>

genVars == <<config, components_columns, views, categories, components,
             category_ids, gen_last, files>>

concVars == <<workers, writes>>

guiVars == <<gui, progress_dialog>>

txVars == <<tx>>

vars == <<engineVars, genVars, concVars, guiVars, txVars>>

NoCall == [op |-> "none"]

NoPrev == [mapping |-> None]

\* no generator object yet
NoConfig == [constructed |-> FALSE]

\* populate_categories has not returned yet
NoIds == << <<None, 0>> >>

\* the worker threads
Workers == {1, 2}

\* a worker that is in no call
Idle ==
  [pc |-> "idle", op |-> "", raw |-> "", component_data |-> EmptyRec,
   i |-> 0, size |-> 0, exc |-> "", val |-> None, calls |-> 0]

\* ComponentMappingEngine.__init__ with the rule files of the configuration
EngineInitFrom(configs) ==
  /\ \E c \in configs :
       /\ symbol_mappings = c[1]
       /\ footprint_mappings = c[2]
       /\ category_mappings = c[3]
       /\ rule_files = FilesOf(c)
  /\ init_symbol_mappings = symbol_mappings
  /\ init_footprint_mappings = footprint_mappings
  /\ last = NoCall

EngineInit == EngineInitFrom(EngineConfigs)

\* an output directory without a database, and no generator object
GeneratorInit ==
  /\ config = NoConfig
  /\ components_columns = {}
  /\ views = FALSE
  /\ categories = <<>>
  /\ components = <<>>
  /\ category_ids = NoIds
  /\ gen_last = NoCall
  /\ files = {}

\* no worker has started
WorkersInit ==
  /\ workers = [w \in Workers |-> Idle]
  /\ writes = <<>>

\* ------------------------------------------------------------------------
\* The GUI-driven migration run (gui.py)
\* ------------------------------------------------------------------------
\* _run_migration runs in a worker thread while the progress dialog takes
\* the Cancel click.  The thread is cut where it calls one of its
\* collaborators or reads the dialog's flag.  self.parser, self.mapping_engine
\* and self.generator are None after __init__ (lines 1308-1310); the run
\* builds them itself unless they were assigned before, and then uses them
\* through the interface the loop calls: parse() gives the list of
\* components, map_component(component) gives a dict with a confidence.

\* longest list parser.parse() returns
MaxComponents == 3

\* migration runs started on one application window
MaxRuns == 2

\* confidences (in tenths) of the mapped dicts the loop receives
GuiConfidences == {3, 7, 9}

\* the application after __init__ with no run started
NoRun ==
  [pc |-> "idle", preset |-> FALSE, is_migrating |-> FALSE, n |-> 0,
   mapped_components |-> <<>>, high_conf |-> 0, med_conf |-> 0,
   low_conf |-> 0, generator_started |-> FALSE, exc |-> "", runs |-> 0]

\* MigrationProgressDialog.__init__ (line 92); requested_at is the number of
\* records mapped when Cancel was clicked during the loop (-1: not clicked
\* then), in_loop says the click came before the loop had ended
NewDialog == [cancelled |-> FALSE, requested_at |-> 0 - 1, in_loop |-> FALSE]

GuiInit ==
  /\ gui = NoRun
  /\ progress_dialog = NewDialog

\* no populate_components call is in progress
NoTx ==
  [pc |-> "idle", sizes |-> <<>>, t |-> 0, i |-> 0, total_components |-> 0,
   failed_components |-> 0, uncommitted |-> 0, batch_commits |-> 0]

TxInit == tx = NoTx

Init == EngineInit /\ GeneratorInit /\ WorkersInit /\ GuiInit /\ TxInit

\* a caller runs engine.map_component(altium_data, table_config); prev is the
\* result of the call before it when that call had the same arguments
MapComponent(altium_data, table_config) ==
  \E r \in {map_component(symbol_mappings, footprint_mappings,
                          category_mappings, altium_data, table_config)} :
     /\ symbol_mappings' = r.symbol_mappings
     /\ footprint_mappings' = r.footprint_mappings
     /\ last' = [op |-> "map_component",
                 altium_data |-> altium_data,
                 table_config |-> table_config,
                 exc |-> r.exc,
                 mapping |-> r.mapping,
                 failed |-> r.failed,
                 symbol_how |-> r.symbol_how,
                 footprint_how |-> r.footprint_how,
                 fresh |-> /\ symbol_mappings = init_symbol_mappings
                           /\ footprint_mappings = init_footprint_mappings,
                 prev |-> IF /\ last.op = "map_component"
                             /\ last.altium_data = altium_data
                             /\ last.table_config = table_config
                          THEN [mapping |-> last.mapping,
                                symbol_how |-> last.symbol_how,
                                footprint_how |-> last.footprint_how]
                          ELSE NoPrev]
     /\ UNCHANGED <<category_mappings, init_symbol_mappings,
                    init_footprint_mappings, rule_files,
                    genVars, concVars, guiVars, txVars>>

\* a caller runs engine.map_table_data(table_name, table_data)
MapTableData(table_data) ==
  \E r \in {map_table_data(symbol_mappings, footprint_mappings,
                           category_mappings, table_data)} :
     /\ symbol_mappings' = r.symbol_mappings
     /\ footprint_mappings' = r.footprint_mappings
     /\ last' = [op |-> "map_table_data",
                 table_data |-> table_data,
                 mappings |-> r.mappings,
                 failed |-> r.failed]
     /\ UNCHANGED <<category_mappings, init_symbol_mappings,
                    init_footprint_mappings, rule_files,
                    genVars, concVars, guiVars, txVars>>

\* a caller runs engine.map_component_category(component_data)
MapComponentCategory(component_data) ==
  /\ last' = [op |-> "map_component_category",
              component_data |-> component_data,
              exc |-> "",
              val |-> map_component_category(category_mappings,
                                             component_data)]
  /\ UNCHANGED <<symbol_mappings, footprint_mappings, category_mappings,
                 init_symbol_mappings, init_footprint_mappings, rule_files,
                 genVars, concVars, guiVars, txVars>>

\* a caller runs engine.map_symbol(altium_symbol, component_data)
MapSymbol(altium_symbol, component_data) ==
  \E r \in {map_symbol(symbol_mappings, altium_symbol, component_data)} :
     /\ symbol_mappings' = r.mappings
     /\ last' = [op |-> "map_symbol",
                 raw |-> altium_symbol,
                 component_data |-> component_data,
                 exc |-> r.exc, val |-> r.val, how |-> r.how]
     /\ UNCHANGED <<footprint_mappings, category_mappings,
                    init_symbol_mappings, init_footprint_mappings, rule_files,
                    genVars,
                    concVars, guiVars, txVars>>

\* a caller runs engine.map_footprint(altium_footprint, component_data)
MapFootprint(altium_footprint, component_data) ==
  \E r \in {map_footprint(footprint_mappings, altium_footprint,
                          component_data)} :
     /\ footprint_mappings' = r.mappings
     /\ last' = [op |-> "map_footprint",
                 raw |-> altium_footprint,
                 component_data |-> component_data,
                 exc |-> r.exc, val |-> r.val, how |-> r.how]
     /\ UNCHANGED <<symbol_mappings, category_mappings,
                    init_symbol_mappings, init_footprint_mappings, rule_files,
                    genVars,
                    concVars, guiVars, txVars>>

\* the engine used record by record and table by table
Next ==
  \/ \E altium_data \in Records, table_config \in TableConfigs :
       MapComponent(altium_data, table_config)
  \/ \E data \in Tables :
       MapTableData([config |-> EmptyRec, data |-> data])

Spec == Init /\ [][Next]_vars

\* the two resolvers called on their own
NextResolve ==
  \/ \E component_data \in Records :
       MapSymbol(Get(component_data, "Symbol", ""), component_data)
  \/ \E component_data \in Records :
       MapFootprint(Get(component_data, "Footprint", ""), component_data)

SpecResolve == Init /\ [][NextResolve]_vars

\* the contents of a symbol and of a footprint rule file
SymbolItems == << <<"RES", "Custom:R">> >>

FootprintItems == << <<"0603", "Custom:0603">> >>

\* a category rule file that holds one rule as a dict, not a list of rules
CategoryDictItems ==
  << <<"pattern", "*resistor*">>, <<"category", "Passive">>,
     <<"subcategory", "Resistors">> >>

\* the rule files engines are built from: each one absent, well formed, not
\* parsable, or parsed to a value of the other shape
RuleFileSets ==
  [symbol_mapping_file :
     {NoFile, DictFile(SymbolItems), Unparsable, ListFile(SymbolItems)},
   footprint_mapping_file :
     {NoFile, DictFile(FootprintItems), Unparsable,
      ListFile(FootprintItems)},
   category_mapping_file :
     {NoFile,
      ListFile(<< [pattern |-> "*resistor*", category |-> "Passive",
                   subcategory |-> "Resistors"] >>),
      Unparsable, DictFile(CategoryDictItems)}]

\* ComponentMappingEngine.__init__ (lines 76-84): empty tables, then
\* _load_custom_mappings on the three rule files
EngineInitFromFiles(file_sets) ==
  /\ rule_files \in file_sets
  /\ symbol_mappings =
       load_mapping_file(<<>>, rule_files.symbol_mapping_file)
  /\ footprint_mappings =
       load_mapping_file(<<>>, rule_files.footprint_mapping_file)
  /\ category_mappings =
       load_category_file(<<>>, rule_files.category_mapping_file)
  /\ init_symbol_mappings = symbol_mappings
  /\ init_footprint_mappings = footprint_mappings
  /\ last = NoCall

InitLoad ==
  EngineInitFromFiles(RuleFileSets) /\ GeneratorInit /\ WorkersInit /\ GuiInit /\ TxInit

\* calls on an engine built from rule files
NextLoad ==
  \/ \E component_data \in Records :
       MapSymbol(Get(component_data, "Symbol", ""), component_data)
  \/ \E component_data \in Records :
       MapFootprint(Get(component_data, "Footprint", ""), component_data)
  \/ \E component_data \in Records : MapComponentCategory(component_data)

SpecLoad == InitLoad /\ [][NextLoad]_vars

\* rule files with an exact rule for the raw references of RecA and RecN:
\* the symbol rule names a library symbol of its own or the symbol the
\* engine also uses as the generic resistor
ExactRuleFiles ==
  [symbol_mapping_file :
     {DictFile(<< <<"RES", "Custom:R">> >>),
      DictFile(<< <<"RES", "Device:R">> >>)},
   footprint_mapping_file : {DictFile(FootprintItems)},
   category_mapping_file :
     {NoFile,
      ListFile(<< [pattern |-> "*resistor*", category |-> "Passive",
                   subcategory |-> "Resistors"] >>)}]

InitRules ==
  EngineInitFromFiles(ExactRuleFiles) /\ GeneratorInit /\ WorkersInit
    /\ GuiInit /\ TxInit

\* map_component calls on an engine built from exact rules
NextRules ==
  \E altium_data \in Records, table_config \in TableConfigs :
    MapComponent(altium_data, table_config)

SpecRules == InitRules /\ [][NextRules]_vars

\* rules of a category rule file
MaxRules == 2

\* the rules category rule files are written from: the rule of Scenario C, a
\* rule with an upper-case pattern and keywords, a rule with an empty
\* pattern, a rule that names no category
CategoryRules ==
  { [pattern |-> "*resistor*", category |-> "Passive",
     subcategory |-> "Resistors"],
    [pattern |-> "*RES*", category |-> "Custom", subcategory |-> "Res",
     keywords |-> <<"r">>],
    [pattern |-> "", category |-> "Never", subcategory |-> "Never"],
    [pattern |-> "*diode*"] }

CategoryRuleFiles ==
  [symbol_mapping_file : {NoFile},
   footprint_mapping_file : {NoFile},
   category_mapping_file :
     {ListFile(rules) :
        rules \in UNION {[1..n -> CategoryRules] : n \in 0..MaxRules}}]

InitCategory ==
  EngineInitFromFiles(CategoryRuleFiles) /\ GeneratorInit /\ WorkersInit
    /\ GuiInit /\ TxInit

\* map_component_category calls on an engine built from a category rule file
NextCategory ==
  \E component_data \in Records \cup {RecV} :
    MapComponentCategory(component_data)

SpecCategory == InitCategory /\ [][NextCategory]_vars

\* ------------------------------------------------------------------------
\* The generator's operations
\* ------------------------------------------------------------------------

\* longest components table followed
MaxRows == 2

\* the configuration of a generator: the names of additional_component_fields
\* and of custom_categories (both empty without a config manager)
GeneratorConfig(additional_component_fields, custom_categories) ==
  [constructed |-> TRUE,
   additional_component_fields |-> additional_component_fields,
   custom_categories |-> custom_categories]

DefaultGeneratorConfig == GeneratorConfig(<<>>, <<>>)

\* the records of the tables handed on to the generator
GenRecords == {RecA, RecV}

\* the tables that are mapped and then materialized
GenTables ==
  UNION {[1..n -> GenRecords] : n \in 0..MaxRows}

GeneratorConfigs ==
  {DefaultGeneratorConfig,
   GeneratorConfig(<<"Category", "Subcategory">>, <<>>)}

\* are the ids of the dict the ids of the rows with those names
IdsOfRows(ids, rows) ==
  /\ ids # NoIds
  /\ \A i \in 1..Len(ids) :
       /\ ids[i][2] \in 1..Len(rows)
       /\ rows[ids[i][2]] = ids[i][1]

\* KiCADDbLibGenerator(output_dir, config_manager): a generator object on the
\* output directory, which may hold a database already
NewGenerator(c) ==
  /\ config' = c
  /\ gen_last' = [op |-> "__init__"]
  /\ UNCHANGED <<components_columns, views, categories, components,
                 category_ids, files, engineVars, concVars, guiVars, txVars>>

\* create_database_schema: both tables are dropped and created again; CREATE
\* VIEW fails on a database that has the views, and DatabaseError leaves the
\* call before the additional fields are added
CreateDatabaseSchema ==
  /\ config.constructed
  /\ categories' = <<>>
  /\ components' = <<>>
  /\ \E r \in {create_database_schema(views,
                                       config.additional_component_fields)} :
       /\ components_columns' = r.components_columns
       /\ gen_last' = [op |-> "create_database_schema", exc |-> r.exc]
  /\ views' = TRUE
  /\ UNCHANGED <<config, category_ids, files, engineVars, concVars,
                 guiVars, txVars>>

\* category_ids = populate_categories(component_mappings)
PopulateCategories ==
  /\ config.constructed
  /\ \E r \in {populate_categories(components_columns # {}, categories,
                                   config.custom_categories)} :
       /\ categories' = r.rows
       /\ category_ids' = r.ids
       /\ gen_last' = [op |-> "populate_categories", exc |-> "",
                       category_ids |-> r.ids]
  /\ UNCHANGED <<config, components_columns, views, components, files,
                 engineVars, concVars, guiVars, txVars>>

\* populate_components({table: mappings}, category_ids) with the mappings
\* map_table_data returned last and the dict populate_categories returned
\* last; prepared says that the tables exist and category_ids holds the ids
\* of the categories table, 'Uncategorized' among them
PopulateComponents ==
  /\ config.constructed
  /\ last.op = "map_table_data"
  /\ category_ids # NoIds
  /\ Len(components) + Len(last.mappings) <= MaxRows
  /\ \E r \in {populate_components(components_columns, components,
                                   last.mappings, category_ids)} :
       /\ components' = r.rows
       /\ gen_last' = [op |-> "populate_components", exc |-> "",
                       mappings |-> last.mappings,
                       rows_before |-> Len(components),
                       total_components |-> r.total_components,
                       failed_components |-> r.failed_components,
                       prepared |-> /\ components_columns # {}
                                    /\ IdsOfRows(category_ids, categories)
                                    /\ HasKey(category_ids, "Uncategorized")]
  /\ UNCHANGED <<config, components_columns, views, categories,
                 category_ids, files, engineVars, concVars, guiVars, txVars>>

\* tables are mapped by the engine and materialized by generators
NextGen ==
  \/ \E data \in GenTables :
       MapTableData([config |-> EmptyRec, data |-> data])
  \/ \E c \in GeneratorConfigs : NewGenerator(c)
  \/ CreateDatabaseSchema
  \/ PopulateCategories
  \/ PopulateComponents

\* a category rule file whose rule leaves category and subcategory blank
BlankCategoryRules ==
  << [pattern |-> "*resistor*", category |-> "", subcategory |-> ""] >>

\* the engines whose mappings are materialized: one built without rule
\* files, one built with exact rules and a category rule, one built with the
\* blank category rule
GenEngineConfigs ==
  {c \in EngineConfigs : c[1] = <<>> \/ c[3] # <<>>}
    \cup {<< <<>>, <<>>, BlankCategoryRules >>}

InitGen ==
  EngineInitFrom(GenEngineConfigs) /\ GeneratorInit /\ WorkersInit /\ GuiInit /\ TxInit

SpecGen == InitGen /\ [][NextGen]_vars

\* the name the mappings of the table are filed under in component_mappings
TableName == "Resistors"

\* what generate leaves behind when the step named raises: generate's
\* `except Exception` (lines 952-954) raises KiCADGenerationError for it
GenerateFailed(failed_step, cause) ==
  [op |-> "generate", exc |-> "KiCADGenerationError",
   failed_step |-> failed_step, cause |-> cause, result |-> None,
   report |-> None]

\* generator.generate({table: mappings}) with the mappings map_table_data
\* returned last: the five steps in order inside one try block, each step's
\* effects kept when a later step raises
Generate(dblib_writable, report_writable) ==
  /\ config.constructed
  /\ last.op = "map_table_data"
  /\ Len(last.mappings) <= MaxRows
  /\ views' = TRUE
  /\ \E s \in {create_database_schema(views,
                                      config.additional_component_fields)} :
       /\ components_columns' = s.components_columns
       /\ IF s.exc # ""
          THEN /\ categories' = <<>>
               /\ components' = <<>>
               /\ gen_last' = GenerateFailed("create_database_schema", s.exc)
               /\ UNCHANGED <<category_ids, files>>
          ELSE \E c \in {populate_categories(TRUE, <<>>,
                                             config.custom_categories)} :
               \E p \in {populate_components(s.components_columns, <<>>,
                                             last.mappings, c.ids)} :
               \E d \in {generate_kicad_dblib_file(dblib_writable)} :
                 /\ categories' = c.rows
                 /\ category_ids' = c.ids
                 /\ components' = p.rows
                 /\ IF d.exc # ""
                    THEN /\ gen_last' =
                              GenerateFailed("generate_kicad_dblib_file",
                                             d.exc)
                         /\ UNCHANGED files
                    ELSE \E r \in {generate_migration_report(
                                     << <<TableName, last.mappings>> >>,
                                     report_writable)} :
                         IF r.exc # ""
                         THEN /\ gen_last' =
                                   GenerateFailed("generate_migration_report",
                                                  r.exc)
                              /\ files' = files \cup {d.val}
                         ELSE /\ gen_last' =
                                   [op |-> "generate", exc |-> "",
                                    failed_step |-> "", cause |-> "",
                                    result |-> GenerateResult,
                                    report |-> r.val]
                              /\ files' = files \cup
                                            {d.val, "migration_report.json"}
  /\ UNCHANGED <<config, engineVars, concVars, guiVars, txVars>>

\* the whole pipeline: tables are mapped, generators are constructed and
\* generate is run, with the library file and the report file writable or not
NextPipeline ==
  \/ \E data \in GenTables :
       MapTableData([config |-> EmptyRec, data |-> data])
  \/ \E c \in GeneratorConfigs : NewGenerator(c)
  \/ \E dblib_writable, report_writable \in BOOLEAN :
       Generate(dblib_writable, report_writable)

SpecPipeline == InitGen /\ [][NextPipeline]_vars

\* mappings handed to the report: a confident one, one at 0.8 whose rule
\* gives an empty symbol, one at 0.5, and a generic one below 0.5
ReportMappings ==
  {ComponentMapping("RES", "0603", "Device:R",
                    "Resistor_SMD:R_0603_1608Metric", 9, <<>>,
                    "Passive Components", "Resistors", <<>>),
   ComponentMapping("RES", "0603", "", "Custom:0603", 8, <<>>,
                    "Passive Components", "Resistors", <<>>),
   ComponentMapping("CAP", "abc", "Device:C", GenericFootprint, 5, <<>>,
                    "Passive Components", "Capacitors", <<>>),
   ComponentMapping("XYZ", "abc", GenericSymbol, GenericFootprint, 4, <<>>,
                    "Uncategorized", "General", <<>>)}

\* the tables of a component_mappings dict, in its order
ReportTableNames == <<"Resistors", "Capacitors">>

ReportTables == UNION {[1..n -> ReportMappings] : n \in 0..MaxRows}

\* the component_mappings dicts the report is generated for
ReportInputs ==
  UNION {{[t \in 1..k |-> <<ReportTableNames[t], f[t]>>] :
            f \in [1..k -> ReportTables]} :
         k \in 0..Len(ReportTableNames)}

\* a caller runs generator.generate_migration_report(component_mappings)
GenerateMigrationReport(component_mappings, report_writable) ==
  /\ config.constructed
  /\ \E r \in {generate_migration_report(component_mappings,
                                          report_writable)} :
       /\ gen_last' = [op |-> "generate_migration_report", exc |-> r.exc,
                       component_mappings |-> component_mappings,
                       report |-> r.val]
       /\ files' = IF r.exc = "" THEN files \cup {"migration_report.json"}
                   ELSE files
  /\ UNCHANGED <<config, components_columns, views, categories, components,
                 category_ids, engineVars, concVars, guiVars, txVars>>

InitReport ==
  EngineInitFrom({<< <<>>, <<>>, <<>> >>}) /\ GeneratorInit /\ WorkersInit
    /\ GuiInit /\ TxInit

\* reports generated for dicts of mappings
NextReport ==
  \/ \E c \in GeneratorConfigs : NewGenerator(c)
  \/ \E component_mappings \in ReportInputs, report_writable \in BOOLEAN :
       GenerateMigrationReport(component_mappings, report_writable)

SpecReport == InitReport /\ [][NextReport]_vars

\* a caller files the mapping map_component returned last under one table
\* and has the report generated for it
ReportLastMapping ==
  /\ last.op = "map_component"
  /\ last.failed = "none"
  /\ GenerateMigrationReport(<< <<TableName, <<last.mapping>> >> >>, TRUE)

\* engines without rules and with an exact rule whose target is empty
InitAudit ==
  /\ EngineInitFrom({<< <<>>, <<>>, <<>> >>,
                     << << <<"RES", "">> >>, <<>>, <<>> >>})
  /\ GeneratorInit /\ WorkersInit /\ GuiInit /\ TxInit

\* records are mapped one by one and reported
NextAudit ==
  \/ \E altium_data \in Records : MapComponent(altium_data, EmptyRec)
  \/ NewGenerator(DefaultGeneratorConfig)
  \/ ReportLastMapping

SpecAudit == InitAudit /\ [][NextAudit]_vars

\* ------------------------------------------------------------------------
\* The transaction of populate_components
\* ------------------------------------------------------------------------
\* populate_components row by row: the INSERT of a mapping, the commit test
\* that follows a successful INSERT, the commit after each table and the
\* final commit.  A table is the number of its mappings; whether the INSERT
\* of a mapping fails is open.

\* `total_components % 100` of line 457
CommitEvery == 100

\* INSERTs that fail in one call
MaxFailures == 1

\* the numbers of mappings of a table: none, one less than a batch, a batch
\* and a half
RowCounts == {0, CommitEvery - 1, CommitEvery + (CommitEvery \div 2)}

\* tables of one component_mappings dict
MaxTables == 2

\* the commit test with no batch ever due
commit_never(total_components) == FALSE

\* line 457: is a commit due after the INSERT that made total_components
commit_due(total_components) == total_components % CommitEvery = 0

\* a caller runs generator.populate_components(component_mappings, ids):
\* lines 392-401 up to the first mapping
StartPopulate(sizes) ==
  /\ config.constructed
  /\ tx.pc \in {"idle", "done"}
  /\ tx' = [NoTx EXCEPT !.pc = "loop", !.sizes = sizes, !.t = 1, !.i = 1]
  /\ UNCHANGED <<engineVars, genVars, concVars, guiVars>>

\* lines 406-454, or 460-462 when the INSERT raises: one mapping is inserted
\* and counted, or counted as failed
InsertRow(ok) ==
  /\ tx.pc = "loop"
  /\ tx.t <= Len(tx.sizes)
  /\ tx.i <= tx.sizes[tx.t]
  /\ ok \/ tx.failed_components < MaxFailures
  /\ tx' = IF ok
           THEN [tx EXCEPT !.pc = "inserted",
                           !.total_components = @ + 1,
                           !.uncommitted = @ + 1]
           ELSE [tx EXCEPT !.failed_components = @ + 1, !.i = @ + 1]
  /\ UNCHANGED <<engineVars, genVars, concVars, guiVars>>

\* lines 456-458: the commit every 100 components, then the next mapping
BatchCommit ==
  /\ tx.pc = "inserted"
  /\ tx' = IF commit_due(tx.total_components)
           THEN [tx EXCEPT !.pc = "loop", !.i = @ + 1, !.uncommitted = 0,
                           !.batch_commits = @ + 1]
           ELSE [tx EXCEPT !.pc = "loop", !.i = @ + 1]
  /\ UNCHANGED <<engineVars, genVars, concVars, guiVars>>

\* lines 467-470: the commit after the last mapping of a table
TableCommit ==
  /\ tx.pc = "loop"
  /\ tx.t <= Len(tx.sizes)
  /\ tx.i > tx.sizes[tx.t]
  /\ tx' = [tx EXCEPT !.t = @ + 1, !.i = 1, !.uncommitted = 0]
  /\ UNCHANGED <<engineVars, genVars, concVars, guiVars>>

\* lines 472-482: the final commit, close, and the return
FinalCommit ==
  /\ tx.pc = "loop"
  /\ tx.t > Len(tx.sizes)
  /\ tx' = [tx EXCEPT !.pc = "done", !.uncommitted = 0]
  /\ UNCHANGED <<engineVars, genVars, concVars, guiVars>>

NextTx ==
  \/ NewGenerator(DefaultGeneratorConfig)
  \/ \E sizes \in UNION {[1..n -> RowCounts] : n \in 0..MaxTables} :
       StartPopulate(sizes)
  \/ \E ok \in BOOLEAN : InsertRow(ok)
  \/ BatchCommit
  \/ TableCommit
  \/ FinalCommit

SpecTx == InitReport /\ [][NextTx]_vars

\* ------------------------------------------------------------------------
\* Worker threads on one shared engine
\* ------------------------------------------------------------------------
\* A worker runs map_symbol or map_footprint.  The interpreter switches
\* threads between two accesses to the shared rule table, so a call is cut
\* where it reads or writes the table: the membership test and read of the
\* direct check, the creation of the items() iterator, each step of that
\* iterator with the loop body, and the rest of the call, which stores into
\* the table at most once.

\* calls a worker makes
MaxCalls == 1

\* the same raw references as RecA on another kind of part
RecC == [Symbol |-> "RES", Footprint |-> "0603",
         Description |-> "100nF capacitor"]

ConcRecords == {RecA, RecC, RecN}

Resolvers == {"map_symbol", "map_footprint"}

\* self.symbol_mappings or self.footprint_mappings
TableOf(op) ==
  IF op = "map_symbol" THEN symbol_mappings ELSE footprint_mappings

\* the exception `except Exception` of the resolver raises
ErrorOf(op) ==
  IF op = "map_symbol" THEN "SymbolMappingError" ELSE "FootprintMappingError"

\* the fallback of the resolver for an empty reference
FallbackOf(op, component_data) ==
  IF op = "map_symbol" THEN _get_fallback_symbol(component_data)
  ELSE _get_fallback_footprint(component_data)

\* the call from the end of the pattern loop on (lines 366-388, 486-511)
RestOf(op, raw, component_data) ==
  IF op = "map_symbol"
  THEN map_symbol_except(map_symbol_by_type(symbol_mappings, raw,
                                            component_data))
  ELSE map_footprint_except(
         map_footprint_by_package(footprint_mappings, raw, component_data,
                                  _extract_package_size(raw, component_data)))

\* the worker's call has ended with exception exc ("" for none) or value val
Done(w, exc, val) ==
  [workers EXCEPT ![w] = [@ EXCEPT !.pc = "done", !.exc = exc, !.val = val]]

\* self.symbol_mappings[key] = value (resp. footprint_mappings) by worker w
Store(w, op, key, value) ==
  /\ symbol_mappings' = IF op = "map_symbol"
                        THEN Memoize(symbol_mappings, key, value)
                        ELSE symbol_mappings
  /\ footprint_mappings' = IF op = "map_footprint"
                           THEN Memoize(footprint_mappings, key, value)
                           ELSE footprint_mappings
  /\ writes' = Append(writes, [worker |-> w, op |-> op, key |-> key,
                               value |-> value])

NoStore == UNCHANGED <<symbol_mappings, footprint_mappings, writes>>

ConcFrame ==
  UNCHANGED <<category_mappings, init_symbol_mappings,
              init_footprint_mappings, rule_files, last, genVars, guiVars, txVars>>

\* worker w calls engine.map_symbol / engine.map_footprint for a record
Call(w, op, component_data) ==
  /\ workers[w].pc = "idle"
  /\ workers[w].calls < MaxCalls
  /\ workers' = [workers EXCEPT ![w] =
       [pc |-> "check", op |-> op,
        raw |-> Get(component_data,
                    IF op = "map_symbol" THEN "Symbol" ELSE "Footprint", ""),
        component_data |-> component_data,
        i |-> 0, size |-> 0, exc |-> "", val |-> None,
        calls |-> workers[w].calls + 1]]
  /\ NoStore
  /\ ConcFrame

\* lines 349-356 (469-476): the empty reference, then the direct check
Check(w) ==
  /\ workers[w].pc = "check"
  /\ \E me \in {workers[w]} :
       IF ~Truthy(me.raw)
       THEN \E f \in {FallbackOf(me.op, me.component_data)} :
              workers' = Done(w, IF f.exc # "" THEN ErrorOf(me.op) ELSE "",
                              f.val)
       ELSE IF HasKey(TableOf(me.op), me.raw)
       THEN workers' = Done(w, "", Lookup(TableOf(me.op), me.raw))
       ELSE workers' = [workers EXCEPT ![w] = [@ EXCEPT !.pc = "iter"]]
  /\ NoStore
  /\ ConcFrame

\* `for pattern, kicad_symbol in self.symbol_mappings.items()`: the iterator
\* is created and remembers the size of the dict
IterStart(w) ==
  /\ workers[w].pc = "iter"
  /\ workers' = [workers EXCEPT ![w] =
       [@ EXCEPT !.pc = "pattern", !.i = 1,
                 !.size = Len(TableOf(workers[w].op))]]
  /\ NoStore
  /\ ConcFrame

\* one step of the iterator and the loop body (lines 359-364, 479-484): the
\* step raises RuntimeError when the dict has changed size since the iterator
\* was created, ends the loop after the last item, and else gives item i; a
\* glob rule that matches is stored under the raw reference and returned
PatternNext(w) ==
  /\ workers[w].pc = "pattern"
  /\ \E me \in {workers[w]}, table \in {TableOf(workers[w].op)} :
       IF Len(table) # me.size
       THEN /\ workers' = Done(w, ErrorOf(me.op), None)
            /\ NoStore
       ELSE IF me.i > Len(table)
       THEN /\ workers' = [workers EXCEPT ![w] = [@ EXCEPT !.pc = "rest"]]
            /\ NoStore
       ELSE IF Contains(table[me.i][1], "*")
               /\ FnMatch(me.raw, table[me.i][1])
       THEN /\ workers' = Done(w, "", table[me.i][2])
            /\ Store(w, me.op, me.raw, table[me.i][2])
       ELSE /\ workers' = [workers EXCEPT ![w] = [@ EXCEPT !.i = me.i + 1]]
            /\ NoStore
  /\ ConcFrame

\* the call after the pattern loop: the keyword (package) step stores what
\* it finds under the raw reference; similarity and fallback store nothing
Resolve(w) ==
  /\ workers[w].pc = "rest"
  /\ \E me \in {workers[w]} :
       \E r \in {RestOf(me.op, me.raw, me.component_data)} :
         /\ workers' = Done(w, r.exc, r.val)
         /\ IF r.how = "type"
            THEN Store(w, me.op, me.raw, r.val)
            ELSE NoStore
  /\ ConcFrame

\* the value or the exception reaches the caller
Return(w) ==
  /\ workers[w].pc = "done"
  /\ workers' = [workers EXCEPT ![w] = [@ EXCEPT !.pc = "idle"]]
  /\ NoStore
  /\ ConcFrame

\* two workers resolving references on the shared engine
NextConc ==
  \E w \in Workers :
    \/ \E op \in Resolvers, component_data \in ConcRecords :
         Call(w, op, component_data)
    \/ Check(w)
    \/ IterStart(w)
    \/ PatternNext(w)
    \/ Resolve(w)
    \/ Return(w)

SpecConc == Init /\ [][NextConc]_vars

\* ------------------------------------------------------------------------
\* The steps of the migration run
\* ------------------------------------------------------------------------

\* start_migration (lines 2121-2152): a new dialog, the flag is_migrating and
\* the thread; preset says that the three collaborators were assigned to
\* the window before this run
StartMigration(preset) ==
  /\ gui.pc = "idle"
  /\ gui.runs < MaxRuns
  /\ gui' = [NoRun EXCEPT !.pc = "init", !.preset = preset,
                          !.is_migrating = TRUE, !.runs = gui.runs + 1]
  /\ progress_dialog' = NewDialog
  /\ UNCHANGED <<engineVars, genVars, concVars, txVars>>

\* MigrationProgressDialog.cancel (lines 114-118), the command of the Cancel
\* button; the button is disabled by the first click
Cancel ==
  /\ gui.pc \notin {"idle"}
  /\ ~progress_dialog.cancelled
  /\ progress_dialog' =
       [cancelled |-> TRUE,
        requested_at |-> IF gui.pc \in {"map", "check"}
                         THEN Len(gui.mapped_components) ELSE 0 - 1,
        in_loop |-> gui.pc \in {"init", "parse", "map", "check"}]
  /\ UNCHANGED <<gui, engineVars, genVars, concVars, txVars>>

\* lines 2157-2178: a collaborator that is None is constructed; the
\* constructors of the three classes do not take the arguments given
\* (AltiumDbLibParser(connection_string, db_type) raises TypeError)
InitComponents ==
  /\ gui.pc = "init"
  /\ gui' = IF gui.preset THEN [gui EXCEPT !.pc = "parse"]
            ELSE [gui EXCEPT !.pc = "finally", !.exc = "TypeError"]
  /\ UNCHANGED <<progress_dialog, engineVars, genVars, concVars, txVars>>

\* lines 2181-2191: components = self.parser.parse() and the empty result
\* list; range(0) runs the loop body not at all
Parse(n) ==
  /\ gui.pc = "parse"
  /\ gui' = [gui EXCEPT !.n = n, !.pc = IF n = 0 THEN "after" ELSE "map"]
  /\ UNCHANGED <<progress_dialog, engineVars, genVars, concVars, txVars>>

\* lines 2193-2207: the progress update, mapped = map_component(component),
\* the append and the confidence count
MapRecord(confidence) ==
  /\ gui.pc = "map"
  /\ gui' = [gui EXCEPT
       !.pc = "check",
       !.mapped_components = Append(@, [confidence |-> confidence]),
       !.high_conf = IF confidence > 8 THEN @ + 1 ELSE @,
       !.med_conf = IF confidence <= 8 /\ confidence > 5 THEN @ + 1 ELSE @,
       !.low_conf = IF confidence <= 5 THEN @ + 1 ELSE @]
  /\ UNCHANGED <<progress_dialog, engineVars, genVars, concVars, txVars>>

\* map_component raises: the exception leaves the loop for line 2247
MapRecordFails ==
  /\ gui.pc = "map"
  /\ gui' = [gui EXCEPT !.pc = "finally", !.exc = "Exception"]
  /\ UNCHANGED <<progress_dialog, engineVars, genVars, concVars, txVars>>

\* lines 2209-2212: `if progress_dialog.cancelled: break`, else the next
\* component or the end of the loop
CheckCancelled ==
  /\ gui.pc = "check"
  /\ gui' = [gui EXCEPT !.pc =
       IF progress_dialog.cancelled THEN "after"
       ELSE IF Len(gui.mapped_components) = gui.n THEN "after"
       ELSE "map"]
  /\ UNCHANGED <<progress_dialog, engineVars, genVars, concVars, txVars>>

\* the end of the run without the test of the dialog's flag: the generator
\* is started whether or not Cancel was clicked
AfterLoopUnguarded ==
  /\ gui.pc = "after"
  /\ gui' = [gui EXCEPT !.pc = "finally", !.generator_started = TRUE]
  /\ UNCHANGED <<progress_dialog, engineVars, genVars, concVars, txVars>>

\* lines 2214-2245: the statistics, and `if not progress_dialog.cancelled`
\* the generator, the report and the results
AfterLoop ==
  /\ gui.pc = "after"
  /\ gui' = [gui EXCEPT !.pc = "finally",
                        !.generator_started = ~progress_dialog.cancelled]
  /\ UNCHANGED <<progress_dialog, engineVars, genVars, concVars, txVars>>

\* lines 2254-2266: the migration state is reset
Finally ==
  /\ gui.pc = "finally"
  /\ gui' = [gui EXCEPT !.pc = "idle", !.is_migrating = FALSE]
  /\ UNCHANGED <<progress_dialog, engineVars, genVars, concVars, txVars>>

\* the worker thread and the Cancel button
NextGui ==
  \/ \E preset \in BOOLEAN : StartMigration(preset)
  \/ Cancel
  \/ InitComponents
  \/ \E n \in 0..MaxComponents : Parse(n)
  \/ \E confidence \in GuiConfidences : MapRecord(confidence)
  \/ MapRecordFails
  \/ CheckCancelled
  \/ AfterLoop
  \/ Finally

SpecGui == Init /\ [][NextGui]_vars

\* ------------------------------------------------------------------------
\* Properties of the mapping engine
\* ------------------------------------------------------------------------

IsFullFallback(mapping) ==
  /\ mapping.confidence = 0
  /\ mapping.kicad_symbol = GenericSymbol
  /\ mapping.kicad_footprint = GenericFootprint

InUnitInterval(confidence) == confidence \in 0..10

\* C3: the confidence of every mapping returned by map_component or
\* map_table_data lies in [0, 1]
C3_ConfidenceBounded ==
  /\ last.op = "map_component" => InUnitInterval(last.mapping.confidence)
  /\ last.op = "map_table_data" =>
       \A i \in 1..Len(last.mappings) :
         InUnitInterval(last.mappings[i].confidence)

\* Scenario A on empty rule tables: base 0.5, both references memoized
\* (+0.3 each), consistent generic symbol (+0.1), a sum of 1.2 returned as 1.0
C3_Witness ==
  /\ last.op = "map_component"
  /\ last.altium_data = RecA
  /\ last.fresh
  /\ init_symbol_mappings = <<>>
  /\ init_footprint_mappings = <<>>
  /\ last.symbol_how = "type"
  /\ last.footprint_how = "type"
  /\ last.mapping.kicad_symbol = "Device:R"
  /\ last.mapping.confidence = 10

\* C4: every mapping returned by map_component has a non-empty kicad_symbol
\* and a non-empty kicad_footprint
C4_NonEmptyCanonical ==
  last.op = "map_component" =>
    /\ last.mapping.kicad_symbol # ""
    /\ last.mapping.kicad_footprint # ""

\* C5: when populate_components runs on a prepared database (schema created,
\* categories populated) with the default generator configuration, every one
\* of the N mappings handed over becomes a row of the components table, in
\* order, and no mapping is counted as failed
C5_AllPersisted ==
  (/\ gen_last.op = "populate_components"
   /\ gen_last.prepared
   /\ config = DefaultGeneratorConfig) =>
    /\ Len(components) = gen_last.rows_before + Len(gen_last.mappings)
    /\ gen_last.total_components = Len(gen_last.mappings)
    /\ gen_last.failed_components = 0
    /\ \A i \in 1..Len(gen_last.mappings) :
         /\ components[gen_last.rows_before + i].symbol
              = gen_last.mappings[i].kicad_symbol
         /\ components[gen_last.rows_before + i].original_altium_symbol
              = gen_last.mappings[i].altium_symbol

\* exact 3, glob pattern 2, keyword or fuzzy similarity 1, fallback 0
Rank(how) ==
  CASE how = "exact" -> 3
    [] how = "pattern" -> 2
    [] how \in {"type", "fuzzy"} -> 1
    [] OTHER -> 0

\* C6: take the call just made on a freshly built engine and the same call on
\* an engine built with other symbol rules (resp. other footprint rules); if
\* both give the same canonical values and the first resolved the reference
\* by a strategy at least as strong (exact >= pattern >= fuzzy >= fallback),
\* its confidence is at least the confidence of the second
C6_ConfidenceOrdering ==
  (last.op = "map_component" /\ last.fresh /\ last.failed = "none") =>
    /\ \A alt \in SymbolRuleSets :
         \A r \in {map_component(alt, init_footprint_mappings,
                                   category_mappings, last.altium_data,
                                   last.table_config)} :
            (/\ r.failed = "none"
             /\ r.mapping.kicad_symbol = last.mapping.kicad_symbol
             /\ r.mapping.kicad_footprint = last.mapping.kicad_footprint
             /\ r.footprint_how = last.footprint_how
             /\ Rank(last.symbol_how) >= Rank(r.symbol_how))
            => last.mapping.confidence >= r.mapping.confidence
    /\ \A alt \in FootprintRuleSets :
         \A r \in {map_component(init_symbol_mappings, alt,
                                   category_mappings, last.altium_data,
                                   last.table_config)} :
            (/\ r.failed = "none"
             /\ r.mapping.kicad_symbol = last.mapping.kicad_symbol
             /\ r.mapping.kicad_footprint = last.mapping.kicad_footprint
             /\ r.symbol_how = last.symbol_how
             /\ Rank(last.footprint_how) >= Rank(r.footprint_how))
            => last.mapping.confidence >= r.mapping.confidence

\* C7: the mapping of a record is the one a freshly built engine with the
\* same rules gives for it, whatever the engine has mapped before
C7_HistoryIndependent ==
  last.op = "map_component" =>
    \A r \in {map_component(init_symbol_mappings, init_footprint_mappings,
                              category_mappings, last.altium_data,
                              last.table_config)} :
       /\ last.mapping.kicad_symbol = r.mapping.kicad_symbol
       /\ last.mapping.kicad_footprint = r.mapping.kicad_footprint
       /\ last.mapping.confidence = r.mapping.confidence

\* C8: two stores that two workers made into the same rule table under the
\* same raw reference stored the same value
C8_WritersAgree ==
  \A a \in 1..Len(writes), b \in 1..Len(writes) :
    (/\ writes[a].worker # writes[b].worker
     /\ writes[a].op = writes[b].op
     /\ writes[a].key = writes[b].key) =>
      writes[a].value = writes[b].value

\* C9: map_symbol and map_footprint return a value and never raise
C9_ResolversNeverFail ==
  last.op \in {"map_symbol", "map_footprint"} => last.exc = ""

\* C10: a map_component call that repeats the call before it (same record,
\* same table_config) returns an equal mapping: symbol, footprint,
\* confidence, field mapping, category, subcategory and keywords
C10_Deterministic ==
  (last.op = "map_component" /\ last.prev # NoPrev) =>
    last.prev.mapping = last.mapping

\* the first of the two calls memoized the symbol, the second found the memo
C10_Witness ==
  /\ last.op = "map_component"
  /\ last.prev # NoPrev
  /\ last.prev.symbol_how \in {"pattern", "type"}
  /\ last.symbol_how = "exact"
  /\ last.failed = "none"

\* ------------------------------------------------------------------------
\* Properties of the migration run
\* ------------------------------------------------------------------------

\* C11: when Cancel is requested during the record loop at the moment k of
\* the N records (k < N) have been mapped, the loop ends with exactly those k
\* mappings: no record is mapped after the request
C11_CancelKeepsExactlyK ==
  (/\ gui.pc = "after"
   /\ progress_dialog.requested_at >= 0
   /\ progress_dialog.requested_at < gui.n)
    => Len(gui.mapped_components) = progress_dialog.requested_at

\* ------------------------------------------------------------------------
\* Properties of the database generator
\* ------------------------------------------------------------------------

\* the values of a dict
ValuesOf(d) == {d[i][2] : i \in 1..Len(d)}

\* the description of the mapping contains none of the category keywords
NoCategoryKeyword(mapping) ==
  CategoryNameFor(Lower(DictGet(mapping.field_mappings, "Description", "")),
                  "") = "Uncategorized"

\* C12: on a prepared database, for every mapping that populate_components
\* was given, _categorize_component returns an id of the category map, and
\* the 'Uncategorized' id when the description holds no category keyword,
\* whatever the canonical symbol is
C12_CategoryIdValid ==
  (gen_last.op = "populate_components" /\ gen_last.prepared) =>
    \A i \in 1..Len(gen_last.mappings) :
      \A r \in {_categorize_component(gen_last.mappings[i], category_ids)} :
        /\ r.exc = ""
        /\ r.val \in ValuesOf(category_ids)
        /\ NoCategoryKeyword(gen_last.mappings[i])
             => r.val = Lookup(category_ids, "Uncategorized")

\* C13: every populate_categories call on a database with the schema returns
\* a map that binds 'Uncategorized' to the id of a row of the categories
\* table with that name, whatever was called on the database before
C13_UncategorizedReturned ==
  (gen_last.op = "populate_categories" /\ components_columns # {}) =>
    /\ HasKey(gen_last.category_ids, "Uncategorized")
    /\ Lookup(gen_last.category_ids, "Uncategorized") \in 1..Len(categories)
    /\ categories[Lookup(gen_last.category_ids, "Uncategorized")]
         = "Uncategorized"

\* can the row of the mapping be inserted into the components table as it is
Insertable(mapping) ==
  \A c \in {_categorize_component(mapping, category_ids)} :
    /\ c.exc = ""
    /\ InsertSucceeds(components_columns, ComponentData(mapping, c.val))

\* the rows the last populate_components call added
NewRows ==
  SubSeq(components, gen_last.rows_before + 1, Len(components))

C15_ReportFailureNonFatal ==
  (gen_last.op = "generate"
     /\ gen_last.failed_step = "generate_migration_report")
    => /\ gen_last.exc = ""
       /\ gen_last.result # None
       /\ gen_last.result.database_path = "components.db"
       /\ gen_last.result.dblib_path = "components.kicad_dbl"

\* a rule file that is not parsable or not of the expected shape counts as
\* absent
Skipped(file, shape) == IF file.kind = shape THEN file ELSE NoFile

\* C16: a malformed rule file is skipped: the engine starts with the rule
\* tables of an engine built without it, so that their map_symbol and
\* map_footprint calls agree, and map_component_category returns what the
\* category rules of that engine give.
C16_MalformedFileSkipped ==
  /\ init_symbol_mappings =
       load_mapping_file(<<>>, Skipped(rule_files.symbol_mapping_file, "dict"))
  /\ init_footprint_mappings =
       load_mapping_file(<<>>,
                         Skipped(rule_files.footprint_mapping_file, "dict"))
  /\ last.op = "map_component_category"
       => last.val =
            map_component_category(
              load_category_file(<<>>,
                Skipped(rule_files.category_mapping_file, "list")),
              last.component_data)

\* new is old, or old with one entry appended whose key is raw and was not
\* a key of old
AddsAtMostOne(old, new, raw) ==
  \/ new = old
  \/ /\ Len(new) = Len(old) + 1
     /\ SubSeq(new, 1, Len(old)) = old
     /\ new[Len(new)][1] = raw
     /\ ~HasKey(old, raw)

\* C17: a map_symbol or map_footprint call never removes an entry of the
\* rule table it works on and never changes the value of one; it leaves the
\* table as it is or adds one entry, for its raw reference, which was not a
\* key before; the other table is left alone.
C17_CacheAppendOnly ==
  [][/\ last'.op = "map_symbol"
        => /\ AddsAtMostOne(symbol_mappings, symbol_mappings', last'.raw)
           /\ footprint_mappings' = footprint_mappings
     /\ last'.op = "map_footprint"
        => /\ AddsAtMostOne(footprint_mappings, footprint_mappings',
                            last'.raw)
           /\ symbol_mappings' = symbol_mappings]_vars

\* a resolution was memoized behind a loaded rule, which is still there
C17_Witness ==
  /\ last.op = "map_symbol"
  /\ init_symbol_mappings # <<>>
  /\ Len(symbol_mappings) = Len(init_symbol_mappings) + 1
  /\ SubSeq(symbol_mappings, 1, Len(init_symbol_mappings))
       = init_symbol_mappings
  /\ symbol_mappings[Len(symbol_mappings)][1] = last.raw

\* C18: Scenario A: on empty symbol and footprint rule tables, map_component
\* on the record RES / 10k Ohm Resistor / 0603 gives the symbol 'Device:R', a
\* footprint containing '0603' and a confidence between 0.5 and 0.9.
C18_ScenarioA ==
  (/\ last.op = "map_component"
   /\ last.altium_data = RecA
   /\ last.table_config = EmptyRec
   /\ last.fresh
   /\ init_symbol_mappings = <<>>
   /\ init_footprint_mappings = <<>>)
    => /\ last.exc = ""
       /\ last.mapping.kicad_symbol = "Device:R"
       /\ Contains(last.mapping.kicad_footprint, "0603")
       /\ last.mapping.confidence \in 5..9

\* the raw reference map_component reads from the record of the last call
RawOf(field, default_field) ==
  Get(last.altium_data, Get(last.table_config, field, default_field), "")

\* C19: Scenario B: when the rule tables the engine was built with hold an
\* exact rule for the raw symbol and one for the raw footprint of a record,
\* map_component returns the canonical values of those two rules and a
\* confidence of at least 0.8.
C19_ScenarioB ==
  (/\ last.op = "map_component"
   /\ HasKey(init_symbol_mappings, RawOf("symbol_field", "Symbol"))
   /\ HasKey(init_footprint_mappings, RawOf("footprint_field", "Footprint")))
    => /\ last.mapping.kicad_symbol =
            Lookup(init_symbol_mappings, RawOf("symbol_field", "Symbol"))
       /\ last.mapping.kicad_footprint =
            Lookup(init_footprint_mappings,
                   RawOf("footprint_field", "Footprint"))
       /\ last.mapping.confidence >= 8

\* the match string of a record: its name, description, symbol and footprint
\* in lower case
MatchString(component_data) ==
  Lower(Str(Get(component_data, "Name", "")) \o " "
        \o Str(Get(component_data, "Description", "")) \o " "
        \o Str(Get(component_data, "Symbol", "")) \o " "
        \o Str(Get(component_data, "Footprint", "")))

\* does the glob pattern of the rule match the match string
RuleMatches(rule, match_string) ==
  /\ Get(rule, "pattern", "") # ""
  /\ FnMatch(match_string, Lower(Get(rule, "pattern", "")))

\* C20: map_component_category returns the category, subcategory and
\* keywords of the first rule, in the order of the rule list, whose pattern
\* matches the match string of the record, and the result of the keyword
\* heuristic when no rule matches.
C20_FirstMatchWins ==
  last.op = "map_component_category" =>
    \A text \in {MatchString(last.component_data)} :
      IF \E i \in 1..Len(category_mappings) :
           RuleMatches(category_mappings[i], text)
      THEN \E i \in 1..Len(category_mappings) :
             /\ RuleMatches(category_mappings[i], text)
             /\ \A j \in 1..(i - 1) : ~RuleMatches(category_mappings[j], text)
             /\ last.val.category =
                  Get(category_mappings[i], "category", "Uncategorized")
             /\ last.val.subcategory =
                  Get(category_mappings[i], "subcategory", "General")
             /\ last.val.keywords =
                  Get(category_mappings[i], "keywords", <<>>)
      ELSE last.val = map_component_category(<<>>, last.component_data)

\* two rules match a record the heuristic files under 'Passive Components';
\* the rule declared first, '*resistor*', gave the result
C20_Witness ==
  /\ last.op = "map_component_category"
  /\ last.component_data = RecA
  /\ Len(category_mappings) = 2
  /\ category_mappings[1].pattern = "*resistor*"
  /\ category_mappings[2].pattern = "*RES*"
  /\ last.val.category = "Passive"
  /\ last.val.subcategory = "Resistors"

\* the number of mappings of a table whose confidence satisfies the test
CountIn(mappings, lo, hi) ==
  Cardinality({i \in 1..Len(mappings) :
                 mappings[i].confidence >= lo /\ mappings[i].confidence <= hi})

\* the sum of a counter over the tables of table_details from table t on
RECURSIVE SumOver(_, _, _)
SumOver(table_details, key, t) ==
  IF t > Len(table_details) THEN 0
  ELSE table_details[t][2][key] + SumOver(table_details, key, t + 1)

\* C21: the report counts every mapping in exactly one bucket: high above
\* 0.8, medium from 0.5 to 0.8, low below 0.5; per table the three buckets
\* add up to component_count, and each summary counter is the sum of the
\* tables' counters.
C21_BucketsPartition ==
  (gen_last.op = "generate_migration_report" /\ gen_last.exc = "") =>
    \A details \in {gen_last.report.table_details},
       summary \in {gen_last.report.migration_summary} :
      /\ Len(details) = Len(gen_last.component_mappings)
      /\ \A t \in 1..Len(details) :
           \A stats \in {details[t][2]},
              mappings \in {gen_last.component_mappings[t][2]} :
             /\ details[t][1] = gen_last.component_mappings[t][1]
             /\ stats.high_confidence = CountIn(mappings, 9, 10)
             /\ stats.medium_confidence = CountIn(mappings, 5, 8)
             /\ stats.low_confidence = CountIn(mappings, 0, 4)
             /\ stats.component_count = Len(mappings)
             /\ stats.high_confidence + stats.medium_confidence
                  + stats.low_confidence = stats.component_count
      /\ summary.total_tables = Len(details)
      /\ summary.total_components = SumOver(details, "component_count", 1)
      /\ summary.high_confidence = SumOver(details, "high_confidence", 1)
      /\ summary.medium_confidence = SumOver(details, "medium_confidence", 1)
      /\ summary.low_confidence = SumOver(details, "low_confidence", 1)

\* a report over two tables whose summary has all three buckets filled, a
\* mapping at exactly 0.8 among the medium ones
C21_Witness ==
  /\ gen_last.op = "generate_migration_report"
  /\ gen_last.exc = ""
  /\ Len(gen_last.component_mappings) = 2
  /\ Len(gen_last.component_mappings[1][2]) = 2
  /\ gen_last.component_mappings[1][2][1].confidence = 8
  /\ gen_last.report.table_details[1][2].medium_confidence >= 1
  /\ gen_last.report.migration_summary.high_confidence >= 1
  /\ gen_last.report.migration_summary.low_confidence >= 1

\* the result of the first of the five strategies that produces one on the
\* rule table, the raw symbol and the lower-cased description and value
FirstStrategyResult(mappings, raw, component_data, description, value) ==
  IF HasKey(mappings, raw) THEN Lookup(mappings, raw)
  ELSE IF FirstPattern(mappings, raw) # 0
  THEN mappings[FirstPattern(mappings, raw)][2]
  ELSE IF FirstTypeHit(description, value) # 0
  THEN component_type_mappings[FirstTypeHit(description, value)].kicad_symbol
  ELSE IF Truthy(_find_similar_symbol(raw, component_data).val)
  THEN _find_similar_symbol(raw, component_data).val
  ELSE _get_fallback_symbol(component_data).val

\* C22: map_symbol returns the result of the first strategy that produces
\* one, in the order exact rule, pattern rule, component-type match, fuzzy
\* similarity, fallback, for every raw symbol, an empty one included.
C22_StrategyOrder ==
  [][(/\ last'.op = "map_symbol"
      /\ last'.exc = ""
      /\ CanLower(Get(last'.component_data, "Description", ""))
      /\ CanLower(Get(last'.component_data, "Value", "")))
       => last'.val =
            FirstStrategyResult(
              symbol_mappings, last'.raw, last'.component_data,
              Lower(Get(last'.component_data, "Description", "")),
              Lower(Get(last'.component_data, "Value", "")))]_vars

\* the bonus the score grants for a reference resolved in the way given
BonusFor(how) == IF how = "exact" THEN 3 ELSE IF how = "pattern" THEN 2 ELSE 0

\* the term of the score for a generic symbol that fits the description or
\* does not
GenericTerm(kicad_symbol, altium_data) ==
  IF kicad_symbol \in {"Device:R", "Device:C", "Device:L", "Device:D",
                       "Device:Q_NMOS_GSD", "Device:U"}
  THEN Consistency(kicad_symbol, Lower(Get(altium_data, "Description", "")))
  ELSE 0

\* C23: the score grants +0.3 for a reference only when an exact rule
\* resolved it and +0.2 only when a pattern rule resolved it, never both for
\* one reference: the confidence of a mapping is at most the base 0.5 plus
\* the one bonus each reference earned by the way it was resolved, plus the
\* term for the generic symbol.
C23_BonusByProvenance ==
  (last.op = "map_component" /\ last.failed = "none") =>
    last.mapping.confidence
      <= Clamp(5 + BonusFor(last.symbol_how) + BonusFor(last.footprint_how)
                 + GenericTerm(last.mapping.kicad_symbol, last.altium_data))

\* C24: the category_id written for a mapping is the id the map returned by
\* populate_categories gives for the mapping's category name, and the id of
\* 'Uncategorized' when that name is not a key of the map or the mapping has
\* no category.
C24_CategoryIdByName ==
  (gen_last.op = "populate_components" /\ gen_last.prepared) =>
    \A j \in 1..Len(NewRows) :
      NewRows[j].category_id
        = DictGet(category_ids, Get(NewRows[j], "category", "Uncategorized"),
                  Lookup(category_ids, "Uncategorized"))

\* did the canonical value come from the fallback step alone
FallbackOnly(how) == how \in {"fallback", "empty"}

\* C25: the missing_symbols and missing_footprints lists of a table hold the
\* raw references of the mappings whose canonical value came from the
\* fallback step alone, and no reference an exact rule, a pattern rule, a
\* keyword match or a fuzzy match resolved; here for the table made of the
\* mapping map_component returned last.
C25_MissingAreFallbacks ==
  (/\ gen_last.op = "generate_migration_report"
   /\ gen_last.exc = ""
   /\ last.op = "map_component"
   /\ last.failed = "none"
   /\ gen_last.component_mappings = << <<TableName, <<last.mapping>> >> >>)
    => \A stats \in {gen_last.report.table_details[1][2]} :
         /\ stats.missing_symbols =
              IF FallbackOnly(last.symbol_how)
              THEN <<last.mapping.altium_symbol>> ELSE <<>>
         /\ stats.missing_footprints =
              IF FallbackOnly(last.footprint_how)
              THEN <<last.mapping.altium_footprint>> ELSE <<>>

C27_RawReferencesKept ==
  last.op = "map_component" =>
    /\ last.mapping.altium_symbol = RawOf("symbol_field", "Symbol")
    /\ last.mapping.altium_footprint = RawOf("footprint_field", "Footprint")

\* the resolver call of worker w, made alone on the engine as it was built
SerialCall(w) ==
  IF workers[w].op = "map_symbol"
  THEN map_symbol(init_symbol_mappings, workers[w].raw,
                  workers[w].component_data)
  ELSE map_footprint(init_footprint_mappings, workers[w].raw,
                     workers[w].component_data)

\* C28: with several workers on one shared engine, a store made by one
\* worker never makes the rule-table iteration of another fail: a resolver
\* call that raises among concurrent calls also raises when it is made alone
C28_InsertNeverBreaksIteration ==
  \A w \in Workers :
    (workers[w].pc = "done" /\ workers[w].exc # "") =>
      \E r \in {SerialCall(w)} : r.exc # ""

\* C29: generate can be run again: a generate on an output directory that
\* already holds a generated database does not fail in
\* create_database_schema, and leaves in the components table the rows its
\* own populate_components wrote for the mappings it was given
C29_GenerateRerunnable ==
  [][(views /\ \E dblib_writable, report_writable \in BOOLEAN :
                Generate(dblib_writable, report_writable)) =>
       /\ gen_last'.failed_step # "create_database_schema"
       /\ \E p \in {populate_components(components_columns', <<>>,
                                        last.mappings, category_ids')} :
            components' = p.rows]_vars

\* C30: in a run of the GUI, when Cancel was clicked before the record loop
\* had ended, the generator is not started in that run
C30_CancelStopsGenerator ==
  progress_dialog.in_loop => ~gui.generator_started

\* Cancel came while the second record was being handled, the loop was left
\* and the statements after the loop have run
C30_Witness ==
  /\ progress_dialog.in_loop
  /\ progress_dialog.requested_at = 1
  /\ gui.pc = "finally"
  /\ gui.exc = ""
  /\ gui.n = MaxComponents
  /\ ~gui.generator_started

====
